---- MODULE Spec2Model ----
(***************************************************************************)
(* Model of the discrete-flag layer (andes/core/discrete.py) and of the    *)
(* Newton-Raphson driver (andes/programs/pflow.py).                        *)
(*                                                                         *)
(* Real numbers are modelled on an integer grid.  Residuals, values and    *)
(* mismatches of the driver are measured in units of 2.5e-7, so that the   *)
(* tolerance 1e-6 is 4 units and a non-zero residual below the tolerance   *)
(* exists on the grid.                                                     *)
(***************************************************************************)
EXTENDS Integers, Sequences, FiniteSets, TLC

VARIABLES
    \* ---- PFlow (pflow.py) and the system / dae it drives
    sys,            \* which equation set the system holds: "linear" or "free"
    max_iter,       \* config.max_iter
    dae,            \* system.dae: [x, y, f, g, fx, gy]
    models,         \* the values held by the models: [x, y] (vars_to_models)
    converged,      \* PFlow.converged
    inc,            \* PFlow.inc   (<<>> stands for None)
    A,              \* PFlow.A     (<<>> stands for None)
    niter,          \* PFlow.niter ("None" before nr() sets it)
    mis,            \* PFlow.mis, the mismatch history
    pc,             \* position of the driver inside nr() / nr_step()
    hooks,          \* calls made by the nr_step in progress, in order
    report,         \* diagnostics of nr(): kind "none", "stalled" or "raised",
                    \* and the logged name
    \* ---- discrete flag instances (discrete.py), one record each
    comp,           \* the component under study
    op,             \* the last operation performed on a discrete instance
    lt,             \* a LessThan
    sw,             \* a Switcher
    lim,            \* a Limiter
    aw,             \* an AntiWindup
    db,             \* a DeadBand
    dl,             \* a Delay, or an Average (a Delay subclass)
    sl,             \* a SortedLimiter
    dv,             \* a Derivative
    se,             \* a Selector
    \* ---- addressed variables (var.py)
    vb,             \* a VarBase (Algeb, State): the owner variable
    ev,             \* an ExtVar linked to the owner
    heap,           \* the arrays the attributes a, v, e and uid refer to
    \* ---- services (service.py)
    svc             \* a ServiceReduce and the ServiceRepeat of its values

nrvars == <<sys, max_iter, dae, models, converged, inc, A, niter, mis, pc,
            hooks, report>>

corevars == <<vb, ev, heap, svc>>

flagvars == <<lt, sw, lim, aw, db, dl, sl, dv, se>>

discvars == <<comp, op, flagvars, corevars>>

vars == <<nrvars, discvars>>

\* ------------------------------------------------------------------------
\* Helpers
\* ------------------------------------------------------------------------
Abs(a) == IF a < 0 THEN -a ELSE a

Last(s) == s[Len(s)]

RECURSIVE MaxAbs(_)
\* max(abs(matrix(v))) of a non-empty vector
MaxAbs(s) ==
    IF Len(s) = 1 THEN Abs(s[1])
    ELSE LET r == MaxAbs(Tail(s))
         IN  IF Abs(s[1]) > r THEN Abs(s[1]) ELSE r

Neg(s) == [i \in 1..Len(s) |-> -s[i]]

Zeros(n) == [i \in 1..n |-> 0]

\* ------------------------------------------------------------------------
\* PFlow configuration (pflow.py:15-16)
\* ------------------------------------------------------------------------
\* config.tol = 1e-6, in grid units of 2.5e-7
tol == 4

\* the factor 1e4 of the divergence test
DivFactor == 10000

\* config.max_iter is drawn from 0..MaxIterCfg (the default is 20)
MaxIterCfg == 1

\* number of elements (devices) of every vector-valued instance
NElem == 2

Idx == 1..NElem

\* Delay.delay is drawn from 0..MaxDelay
MaxDelay == 3

\* a Delay is followed over at most MaxCalls calls of check_var
MaxCalls == 5

\* 1.0 in grid units
One == 250000 * tol

\* ------------------------------------------------------------------------
\* The system driven by PFlow.  Its equations are supplied by the models;
\* two equation sets are modelled:
\*   "linear": no state, one algebraic equation g(y) = 2y - 4, gy = 2;
\*   "singular": no state, one algebraic equation whose residual is the
\*             constant 2 * tol whatever y is, gy = 0 (an imbalance that no
\*             variable can correct): its Jacobian is exactly singular;
\*   "free"  : one state and one algebraic variable whose residuals are
\*             whatever the models' callbacks deliver (drawn from FSet and
\*             GSet at every f_update / g_update), with unit Jacobian.
\* The Jacobian blocks fy and gx are zero and fx, gy are diagonal, so A is
\* represented by its diagonal.
\* ------------------------------------------------------------------------
Systems == {"linear", "singular", "free"}

\* offsets of the initial y from 2.0 for the linear system
Y0Offsets == {-50000, -3, -1, 1, 2, 50000}

FSet == {0, 4}

GSet == {0, 3, 4, 40000, 40001}

\* g(y) = 2y - 4
LinearG(y) == 2 * y - 4 * One

InitDae(s, y0) ==
    IF s \in {"linear", "singular"}
    THEN [x |-> <<>>, y |-> <<y0>>, f |-> <<>>, g |-> <<0>>,
          fx |-> <<>>, gy |-> <<0>>]
    ELSE [x |-> <<0>>, y |-> <<0>>, f |-> <<0>>, g |-> <<0>>,
          fx |-> <<0>>, gy |-> <<0>>]

\* the float nan, which no grid value equals
NaN == -2147483647

\* a + b in floating point: nan when either is nan
Plus(a, b) == IF a = NaN \/ b = NaN THEN NaN ELSE a + b

\* the diagonal matrix is exactly singular
Singular(diag) == \E i \in 1..Len(diag) : diag[i] = 0

\* mutant of Solve: the right-hand side is returned undivided
SolveNoDivision(diag, b) == b

\* solver.solve(A, b) for a diagonal A: x[i] = b[i] / A[i][i].  SpSolve
\* hands A to spsolve and returns what it returns; for an exactly singular
\* A that is a vector filled with nan (spsolve warns, it does not raise).
Solve(diag, b) ==
    IF Singular(diag) THEN [i \in 1..Len(b) |-> NaN]
    ELSE [i \in 1..Len(b) |-> b[i] \div diag[i]]

\* ------------------------------------------------------------------------
\* PFlow.__init__
\* ------------------------------------------------------------------------
PFlowInit ==
    /\ sys \in Systems
    /\ max_iter \in 0..MaxIterCfg
    /\ \E d \in Y0Offsets :
          dae = InitDae(sys, IF sys = "free" THEN 0 ELSE 2 * One + d)
    /\ models = [x |-> dae.x, y |-> dae.y]
    /\ converged = FALSE
    /\ inc = <<>>
    /\ A = <<>>
    /\ niter = "None"
    /\ mis = <<>>
    /\ pc = "idle"
    /\ hooks = <<>>
    /\ report = [kind |-> "none", name |-> <<>>]

\* nr() may be called on a driver that was never run or whose earlier
\* call has returned or raised
NrCallable == pc \in {"idle", "done", "raised"}

\* system.initialize(models): the variables are given initial values again
SystemInitialize ==
    /\ \E d \in Y0Offsets :
          dae' = InitDae(sys, IF sys = "free" THEN 0 ELSE 2 * One + d)
    /\ models' = [x |-> dae'.x, y |-> dae'.y]

\* mutant of NrStart: the mismatch history of the earlier call is kept
NrStartKeepsHistory ==
    /\ NrCallable
    /\ converged' = FALSE
    /\ inc' = <<>>
    /\ A' = <<>>
    /\ niter' = 0
    /\ SystemInitialize
    /\ pc' = "e_clear"
    /\ UNCHANGED <<sys, max_iter, mis, hooks, report>>
    /\ UNCHANGED discvars

\* PFlow._initialize followed by niter = 0 (nr, lines 75-77)
NrStart ==
    /\ NrCallable
    /\ converged' = FALSE
    /\ inc' = <<>>
    /\ A' = <<>>
    /\ mis' = <<>>
    /\ niter' = 0
    /\ SystemInitialize
    /\ pc' = "e_clear"
    /\ UNCHANGED <<sys, max_iter, hooks, report>>
    /\ UNCHANGED discvars

\* ------------------------------------------------------------------------
\* PFlow.nr_step, one action per call it makes
\* ------------------------------------------------------------------------
\* system.e_clear(): zero the residual accumulators
E_clear ==
    /\ pc = "e_clear"
    /\ dae' = [dae EXCEPT !.f = Zeros(Len(dae.f)), !.g = Zeros(Len(dae.g))]
    /\ hooks' = <<"e_clear">>
    /\ pc' = "l_update"
    /\ UNCHANGED <<sys, max_iter, models, converged, inc, A, niter, mis, report>>
    /\ UNCHANGED discvars

\* mutant of L_update: nr_step goes on without calling l_update
L_updateSkipped ==
    /\ pc = "l_update"
    /\ pc' = "f_update"
    /\ UNCHANGED <<sys, max_iter, dae, models, converged, inc, A, niter, mis, hooks, report>>
    /\ UNCHANGED discvars

\* system.l_update(): the discrete flags are refreshed inside the models
L_update ==
    /\ pc = "l_update"
    /\ hooks' = Append(hooks, "l_update")
    /\ pc' = "f_update"
    /\ UNCHANGED <<sys, max_iter, dae, models, converged, inc, A, niter, mis, report>>
    /\ UNCHANGED discvars

\* system.f_update(): differential residuals
F_update ==
    /\ pc = "f_update"
    /\ \/ /\ sys \in {"linear", "singular"}
          /\ dae' = dae
       \/ /\ sys = "free"
          /\ \E r \in FSet : dae' = [dae EXCEPT !.f = <<dae.f[1] + r>>]
    /\ hooks' = Append(hooks, "f_update")
    /\ pc' = "g_update"
    /\ UNCHANGED <<sys, max_iter, models, converged, inc, A, niter, mis, report>>
    /\ UNCHANGED discvars

\* system.g_update(): algebraic residuals
G_update ==
    /\ pc = "g_update"
    /\ \/ /\ sys = "linear"
          /\ dae' = [dae EXCEPT !.g = <<dae.g[1] + LinearG(dae.y[1])>>]
       \/ /\ sys = "singular"
          /\ dae' = [dae EXCEPT !.g = <<dae.g[1] + 2 * tol>>]
       \/ /\ sys = "free"
          /\ \E r \in GSet : dae' = [dae EXCEPT !.g = <<dae.g[1] + r>>]
    /\ hooks' = Append(hooks, "g_update")
    /\ pc' = "j_update"
    /\ UNCHANGED <<sys, max_iter, models, converged, inc, A, niter, mis, report>>
    /\ UNCHANGED discvars

\* system.j_update(): Jacobian blocks
J_update ==
    /\ pc = "j_update"
    /\ \/ /\ sys = "linear"
          /\ dae' = [dae EXCEPT !.gy = <<2>>]
       \/ /\ sys = "singular"
          /\ dae' = [dae EXCEPT !.gy = <<0>>]
       \/ /\ sys = "free"
          /\ dae' = [dae EXCEPT !.fx = <<1>>, !.gy = <<1>>]
    /\ hooks' = Append(hooks, "j_update")
    /\ pc' = "solve"
    /\ UNCHANGED <<sys, max_iter, models, converged, inc, A, niter, mis, report>>
    /\ UNCHANGED discvars

\* lines 49-58: build -[f; g] and A, solve, add the increment to x and y
NrSolve ==
    /\ pc = "solve"
    /\ LET rhs == Neg(dae.f \o dae.g)
           mat == dae.fx \o dae.gy
           sol == Solve(mat, rhs)
           n   == Len(dae.x)
       IN  /\ A' = mat
           /\ inc' = sol
           /\ dae' = [dae EXCEPT
                        !.x = [i \in 1..n |-> Plus(dae.x[i], sol[i])],
                        !.y = [i \in 1..Len(dae.y) |-> Plus(dae.y[i], sol[n + i])]]
    /\ hooks' = Append(hooks, "solve")
    /\ pc' = "mismatch"
    /\ UNCHANGED <<sys, max_iter, models, converged, niter, mis, report>>
    /\ UNCHANGED discvars

\* mutant of NrMismatch: the residual of the linear system is evaluated
\* again at the incremented y before the mismatch is taken
NrMismatchReevaluated ==
    /\ pc = "mismatch"
    /\ mis' = Append(mis, IF sys = "linear" THEN Abs(LinearG(dae.y[1]))
                          ELSE MaxAbs(dae.f \o dae.g))
    /\ pc' = "vars_to_models"
    /\ UNCHANGED <<sys, max_iter, dae, models, converged, inc, A, niter, hooks, report>>
    /\ UNCHANGED discvars

\* lines 60-61: mis = max(abs([f; g])), appended to the history
NrMismatch ==
    /\ pc = "mismatch"
    /\ mis' = Append(mis, MaxAbs(dae.f \o dae.g))
    /\ pc' = "vars_to_models"
    /\ UNCHANGED <<sys, max_iter, dae, models, converged, inc, A, niter, hooks, report>>
    /\ UNCHANGED discvars

\* system.vars_to_models(): push x and y back into the models
Vars_to_models ==
    /\ pc = "vars_to_models"
    /\ models' = [x |-> dae.x, y |-> dae.y]
    /\ hooks' = Append(hooks, "vars_to_models")
    /\ pc' = "test"
    /\ UNCHANGED <<sys, max_iter, dae, converged, inc, A, niter, mis, report>>
    /\ UNCHANGED discvars

\* ------------------------------------------------------------------------
\* PFlow.nr: the tests after each nr_step (lines 82-90)
\* ------------------------------------------------------------------------
\* mutant of NrTest: the mismatch-growth test is missing
NrTestNoGrowthTest ==
    /\ pc = "test"
    /\ LET m == Last(mis)
       IN  IF m < tol
           THEN /\ converged' = TRUE
                /\ pc' = "exit"
                /\ niter' = niter
           ELSE IF niter > max_iter
           THEN /\ pc' = "exit"
                /\ UNCHANGED <<converged, niter>>
           ELSE /\ niter' = niter + 1
                /\ pc' = "e_clear"
                /\ UNCHANGED converged
    /\ UNCHANGED <<sys, max_iter, dae, models, inc, A, mis, hooks, report>>
    /\ UNCHANGED discvars

\* mutant of NrTest: the iteration cap is missing
NrTestNoCap ==
    /\ pc = "test"
    /\ LET m == Last(mis)
       IN  IF m < tol
           THEN /\ converged' = TRUE
                /\ pc' = "exit"
                /\ niter' = niter
           ELSE IF m > DivFactor * mis[1]
           THEN /\ pc' = "exit"
                /\ UNCHANGED <<converged, niter>>
           ELSE /\ niter' = niter + 1
                /\ pc' = "e_clear"
                /\ UNCHANGED converged
    /\ UNCHANGED <<sys, max_iter, dae, models, inc, A, mis, hooks, report>>
    /\ UNCHANGED discvars

\* mutant of NrTest: the iteration cap is tested before convergence
NrTestCapFirst ==
    /\ pc = "test"
    /\ LET m == Last(mis)
       IN  IF niter > max_iter
           THEN /\ pc' = "exit"
                /\ UNCHANGED <<converged, niter>>
           ELSE IF m < tol
           THEN /\ converged' = TRUE
                /\ pc' = "exit"
                /\ niter' = niter
           ELSE IF m > DivFactor * mis[1]
           THEN /\ pc' = "exit"
                /\ UNCHANGED <<converged, niter>>
           ELSE /\ niter' = niter + 1
                /\ pc' = "e_clear"
                /\ UNCHANGED converged
    /\ UNCHANGED <<sys, max_iter, dae, models, inc, A, mis, hooks, report>>
    /\ UNCHANGED discvars

\* mutant of NrTest: the cap stops the loop once niter reaches max_iter
NrTestCapInclusive ==
    /\ pc = "test"
    /\ LET m == Last(mis)
       IN  IF m < tol
           THEN /\ converged' = TRUE
                /\ pc' = "exit"
                /\ niter' = niter
           ELSE IF niter >= max_iter
           THEN /\ pc' = "exit"
                /\ UNCHANGED <<converged, niter>>
           ELSE IF m > DivFactor * mis[1]
           THEN /\ pc' = "exit"
                /\ UNCHANGED <<converged, niter>>
           ELSE /\ niter' = niter + 1
                /\ pc' = "e_clear"
                /\ UNCHANGED converged
    /\ UNCHANGED <<sys, max_iter, dae, models, inc, A, mis, hooks, report>>
    /\ UNCHANGED discvars

\* lines 82-90
NrTest ==
    /\ pc = "test"
    /\ LET m == Last(mis)
       IN  IF m < tol
           THEN /\ converged' = TRUE
                /\ pc' = "exit"
                /\ niter' = niter
           ELSE IF niter > max_iter
           THEN /\ pc' = "exit"
                /\ UNCHANGED <<converged, niter>>
           ELSE IF m > DivFactor * mis[1]
           THEN /\ pc' = "exit"
                /\ UNCHANGED <<converged, niter>>
           ELSE /\ niter' = niter + 1
                /\ pc' = "e_clear"
                /\ UNCHANGED converged
    /\ UNCHANGED <<sys, max_iter, dae, models, inc, A, mis, hooks, report>>
    /\ UNCHANGED discvars

\* the first position of the largest absolute value: np.argmax(np.abs(s))
ArgMaxAbs(s) == CHOOSE i \in 1..Len(s) :
                    /\ Abs(s[i]) = MaxAbs(s)
                    /\ \A j \in 1..(i - 1) : Abs(s[j]) < MaxAbs(s)

\* dae.xy: the values of the states followed by those of the algebraic
\* variables
Xy(d) == d.x \o d.y

\* dae.xy_name: the names in the order of dae.xy
XyName(d) == [i \in 1..Len(d.x) |-> <<"x", i>>] \o [i \in 1..Len(d.y) |-> <<"y", i>>]

\* PFlow.nr: diagnostics after the loop and return (lines 92-99).
\* mis[-2] of a one-entry history raises IndexError.
NrExit ==
    /\ pc = "exit"
    /\ IF converged
       THEN /\ report' = [kind |-> "none", name |-> <<>>]
            /\ pc' = "done"
       ELSE IF Len(mis) < 2
       THEN /\ report' = [kind |-> "raised", name |-> <<>>]
            /\ pc' = "raised"
       ELSE /\ report' = IF Abs(mis[Len(mis)] - mis[Len(mis) - 1]) < tol
                         THEN [kind |-> "stalled",
                               name |-> XyName(dae)[ArgMaxAbs(Xy(dae))]]
                         ELSE [kind |-> "none", name |-> <<>>]
            /\ pc' = "done"
    /\ UNCHANGED <<sys, max_iter, dae, models, converged, inc, A, niter, mis, hooks>>
    /\ UNCHANGED discvars

\* PFlow as constructed and never run
IdleNR ==
    /\ sys = "linear"
    /\ max_iter = 0
    /\ dae = InitDae("linear", 2 * One)
    /\ models = [x |-> dae.x, y |-> dae.y]
    /\ converged = FALSE
    /\ inc = <<>>
    /\ A = <<>>
    /\ niter = "None"
    /\ mis = <<>>
    /\ pc = "idle"
    /\ hooks = <<>>
    /\ report = [kind |-> "none", name |-> <<>>]

NextNR ==
    \/ NrStart
    \/ E_clear
    \/ L_update
    \/ F_update
    \/ G_update
    \/ J_update
    \/ NrSolve
    \/ NrMismatch
    \/ Vars_to_models
    \/ NrTest
    \/ NrExit

\* ========================================================================
\* Discrete flag layer (discrete.py)
\* ========================================================================
\* elementwise helpers on vectors over Idx
B2I(b) == IF b THEN 1 ELSE 0

Const(c) == [i \in Idx |-> c]

\* np.logical_not
LogicalNot(z) == [i \in Idx |-> B2I(z[i] = 0)]

\* np.logical_or
LogicalOr(a, b) == [i \in Idx |-> B2I(a[i] # 0 \/ b[i] # 0)]

\* np.logical_and
LogicalAnd(a, b) == [i \in Idx |-> B2I(a[i] # 0 /\ b[i] # 0)]

\* np.less, np.less_equal, np.greater, np.greater_equal, np.equal
Less(a, b) == [i \in Idx |-> B2I(a[i] < b[i])]

LessEqual(a, b) == [i \in Idx |-> B2I(a[i] <= b[i])]

Greater(a, b) == [i \in Idx |-> B2I(a[i] > b[i])]

GreaterEqual(a, b) == [i \in Idx |-> B2I(a[i] >= b[i])]

Equal(a, b) == [i \in Idx |-> B2I(a[i] = b[i])]

\* ------------------------------------------------------------------------
\* LessThan
\* ------------------------------------------------------------------------
\* values of the input u of a LessThan; its bound is 1 for every element
LtValues == 0..2

\* LessThan.__init__ followed by list2array(NElem)
LtInit ==
    \E en, eq, ca \in BOOLEAN, d0, d1 \in {0, 1}, u0 \in [Idx -> LtValues] :
        lt = [enable |-> en, equal |-> eq, cache |-> ca, eval |-> FALSE,
              z0 |-> Const(d0), z1 |-> Const(d1), u |-> u0, bound |-> Const(1)]

LtIdle ==
    lt = [enable |-> TRUE, equal |-> FALSE, cache |-> FALSE, eval |-> FALSE,
          z0 |-> Const(0), z1 |-> Const(1), u |-> Const(0), bound |-> Const(1)]

\* the flags LessThan.check_var computes from the current inputs
LtCompare(r) == IF ~r.equal THEN Less(r.u, r.bound) ELSE LessEqual(r.u, r.bound)

\* mutant of LtCheckVarBody: the cache is ignored, every call recomputes
LtCheckVarNoCache(r) ==
    IF ~r.enable THEN r
    ELSE [r EXCEPT !.z1 = LtCompare(r), !.z0 = LogicalNot(LtCompare(r)),
                   !.eval = TRUE]

\* mutant of LtCheckVarBody: z0 is left as the constructor set it
LtCheckVarKeepsZ0(r) ==
    IF ~r.enable THEN r
    ELSE IF r.cache /\ r.eval THEN r
    ELSE [r EXCEPT !.z1 = LtCompare(r), !.eval = TRUE]

\* LessThan.check_var: the instance after the call
LtCheckVarBody(r) ==
    IF ~r.enable THEN r
    ELSE IF r.cache /\ r.eval THEN r
    ELSE [r EXCEPT !.z1 = LtCompare(r), !.z0 = LogicalNot(LtCompare(r)),
                   !.eval = TRUE]

LtCheckVar ==
    /\ comp = "LessThan"
    /\ lt' = LtCheckVarBody(lt)
    /\ op' = "lt_check_var"
    /\ UNCHANGED <<nrvars, corevars, comp, sw, lim, aw, db, dl, sl, dv, se>>

\* the input variable takes new values (the solver moved u.v)
LtSetInput ==
    /\ comp = "LessThan"
    /\ \E u1 \in [Idx -> LtValues] : lt' = [lt EXCEPT !.u = u1]
    /\ op' = "lt_set_input"
    /\ UNCHANGED <<nrvars, corevars, comp, sw, lim, aw, db, dl, sl, dv, se>>

\* the cache is invalidated: the owner resets _eval
LtInvalidate ==
    /\ comp = "LessThan"
    /\ lt.eval
    /\ lt' = [lt EXCEPT !.eval = FALSE]
    /\ op' = "lt_invalidate"
    /\ UNCHANGED <<nrvars, corevars, comp, sw, lim, aw, db, dl, sl, dv, se>>

\* ------------------------------------------------------------------------
\* Switcher
\* ------------------------------------------------------------------------
\* Switcher.options
Options == <<1, 2>>

\* values of the input parameter; 3 is not an option
SwValues == 1..3

\* Switcher.__init__ followed by the allocation of list2array(NElem)
SwInit ==
    \E ca \in BOOLEAN, u0 \in [Idx -> SwValues] :
        sw = [cache |-> ca, eval |-> FALSE, u |-> u0,
              s |-> [k \in 1..Len(Options) |-> Const(0)], err |-> FALSE,
              msg |-> <<>>]

SwIdle ==
    sw = [cache |-> TRUE, eval |-> FALSE, u |-> Const(1),
          s |-> [k \in 1..Len(Options) |-> Const(0)], err |-> FALSE,
          msg |-> <<>>]

\* v in self.options
IsOption(v) == \E k \in 1..Len(Options) : Options[k] = v

\* the first value of u that is not an option: the v of the raising iteration
RECURSIVE FirstInvalid(_, _)
FirstInvalid(u, i) ==
    IF IsOption(u[i]) THEN FirstInvalid(u, i + 1) ELSE u[i]

\* what the ValueError message names: the value, owner.class_name, u.name
\* and the options
InvalidOption(u) ==
    [value |-> FirstInvalid(u, 1), owner |-> "class_name", param |-> "name",
     options |-> Options]

\* mutant of SwCheckVarBody: the cache is ignored, every call recomputes
SwCheckVarNoCache(r) ==
    IF \E i \in Idx : ~IsOption(r.u[i])
    THEN [r EXCEPT !.err = TRUE, !.msg = InvalidOption(r.u)]
    ELSE [r EXCEPT !.s = [k \in 1..Len(Options) |-> Equal(r.u, Const(Options[k]))],
                   !.eval = TRUE,
                   !.err = FALSE, !.msg = <<>>]

\* mutant of SwCheckVarBody: the flags are written before the inputs are
\* validated
SwCheckVarWritesFirst(r) ==
    IF r.cache /\ r.eval THEN [r EXCEPT !.err = FALSE, !.msg = <<>>]
    ELSE IF \E i \in Idx : ~IsOption(r.u[i])
    THEN [r EXCEPT !.s = [k \in 1..Len(Options) |-> Equal(r.u, Const(Options[k]))],
                   !.err = TRUE, !.msg = InvalidOption(r.u)]
    ELSE [r EXCEPT !.s = [k \in 1..Len(Options) |-> Equal(r.u, Const(Options[k]))],
                   !.eval = TRUE,
                   !.err = FALSE, !.msg = <<>>]

\* mutant of SwCheckVarBody: the flag arrays are in reverse option order
SwCheckVarReversed(r) ==
    IF r.cache /\ r.eval THEN [r EXCEPT !.err = FALSE, !.msg = <<>>]
    ELSE IF \E i \in Idx : ~IsOption(r.u[i])
    THEN [r EXCEPT !.err = TRUE, !.msg = InvalidOption(r.u)]
    ELSE [r EXCEPT !.s = [k \in 1..Len(Options) |->
                            Equal(r.u, Const(Options[Len(Options) + 1 - k]))],
                   !.eval = TRUE,
                   !.err = FALSE, !.msg = <<>>]

\* Switcher.check_var: the instance after the call; err records whether the
\* call raised ValueError and msg what the error names
SwCheckVarBody(r) ==
    IF r.cache /\ r.eval THEN [r EXCEPT !.err = FALSE, !.msg = <<>>]
    ELSE IF \E i \in Idx : ~IsOption(r.u[i])
    THEN [r EXCEPT !.err = TRUE, !.msg = InvalidOption(r.u)]
    ELSE [r EXCEPT !.s = [k \in 1..Len(Options) |-> Equal(r.u, Const(Options[k]))],
                   !.eval = TRUE,
                   !.err = FALSE, !.msg = <<>>]

SwCheckVar ==
    /\ comp = "Switcher"
    /\ sw' = SwCheckVarBody(sw)
    /\ op' = "sw_check_var"
    /\ UNCHANGED <<nrvars, corevars, comp, lt, lim, aw, db, dl, sl, dv, se>>

\* the input parameter takes new values
SwSetInput ==
    /\ comp = "Switcher"
    /\ \E u1 \in [Idx -> SwValues] : sw' = [sw EXCEPT !.u = u1]
    /\ op' = "sw_set_input"
    /\ UNCHANGED <<nrvars, corevars, comp, lt, lim, aw, db, dl, sl, dv, se>>

\* the cache is invalidated: the owner resets _eval
SwInvalidate ==
    /\ comp = "Switcher"
    /\ sw.eval
    /\ sw' = [sw EXCEPT !.eval = FALSE]
    /\ op' = "sw_invalidate"
    /\ UNCHANGED <<nrvars, corevars, comp, lt, lim, aw, db, dl, sl, dv, se>>

\* ------------------------------------------------------------------------
\* Limiter
\* ------------------------------------------------------------------------
\* values of the input of a limiter
LimValues == 0..4

\* (lower, upper) of a limiter, the same for every element: a proper band
\* and a band that is a single point
LimBands == {<<1, 3>>, <<2, 2>>}

\* Limiter.__init__ followed by list2array(NElem)
LimInit ==
    \E en, lo, uo \in BOOLEAN, b \in LimBands, u0 \in [Idx -> LimValues] :
        lim = [enable |-> en, lower_only |-> lo, upper_only |-> uo,
               u |-> u0, lower |-> Const(b[1]), upper |-> Const(b[2]),
               zi |-> Const(1), zl |-> Const(0), zu |-> Const(0)]

LimIdle ==
    lim = [enable |-> TRUE, lower_only |-> FALSE, upper_only |-> FALSE,
           u |-> Const(0), lower |-> Const(1), upper |-> Const(3),
           zi |-> Const(1), zl |-> Const(0), zu |-> Const(0)]

\* mutant of LimCheckVarBody: zu is compared against the lower bound
LimCheckVarWrongBound(r) ==
    IF ~r.enable THEN r
    ELSE LET zu1 == IF ~r.lower_only THEN GreaterEqual(r.u, r.lower) ELSE r.zu
             zl1 == IF ~r.upper_only THEN LessEqual(r.u, r.lower) ELSE r.zl
         IN  [r EXCEPT !.zu = zu1, !.zl = zl1,
                       !.zi = LogicalNot(LogicalOr(zu1, zl1))]

\* mutant of LimCheckVarBody: enable is not looked at
LimCheckVarIgnoresEnable(r) ==
    LET zu1 == IF ~r.lower_only THEN GreaterEqual(r.u, r.upper) ELSE r.zu
        zl1 == IF ~r.upper_only THEN LessEqual(r.u, r.lower) ELSE r.zl
    IN  [r EXCEPT !.zu = zu1, !.zl = zl1,
                  !.zi = LogicalNot(LogicalOr(zu1, zl1))]

\* mutant of LimCheckVarBody: lower_only and upper_only are not looked at
LimCheckVarBothSides(r) ==
    IF ~r.enable THEN r
    ELSE LET zu1 == GreaterEqual(r.u, r.upper)
             zl1 == LessEqual(r.u, r.lower)
         IN  [r EXCEPT !.zu = zu1, !.zl = zl1,
                       !.zi = LogicalNot(LogicalOr(zu1, zl1))]

\* Limiter.check_var: the instance after the call
LimCheckVarBody(r) ==
    IF ~r.enable THEN r
    ELSE LET zu1 == IF ~r.lower_only THEN GreaterEqual(r.u, r.upper) ELSE r.zu
             zl1 == IF ~r.upper_only THEN LessEqual(r.u, r.lower) ELSE r.zl
         IN  [r EXCEPT !.zu = zu1, !.zl = zl1,
                       !.zi = LogicalNot(LogicalOr(zu1, zl1))]

LimCheckVar ==
    /\ comp = "Limiter"
    /\ lim' = LimCheckVarBody(lim)
    /\ op' = "lim_check_var"
    /\ UNCHANGED <<nrvars, corevars, comp, lt, sw, aw, db, dl, sl, dv, se>>

\* the input variable takes new values
LimSetInput ==
    /\ comp = "Limiter"
    /\ \E u1 \in [Idx -> LimValues] : lim' = [lim EXCEPT !.u = u1]
    /\ op' = "lim_set_input"
    /\ UNCHANGED <<nrvars, corevars, comp, lt, sw, aw, db, dl, sl, dv, se>>

\* ------------------------------------------------------------------------
\* AntiWindup.  The governed state is the input itself (state = None in the
\* constructor), so u.v and state.v are one array, v.
\* ------------------------------------------------------------------------
\* values of the derivative residual state.e
AwResiduals == {-1, 0, 1}

\* the indices i with z[i] = 0 among k..NElem, ascending: np.where(z == 0)
RECURSIVE WhereZero(_, _)
WhereZero(z, k) ==
    IF k > NElem THEN <<>>
    ELSE IF z[k] = 0 THEN <<k>> \o WhereZero(z, k + 1)
    ELSE WhereZero(z, k + 1)

\* arr[idx]
Take(arr, idx) == [j \in 1..Len(idx) |-> arr[idx[j]]]

\* AntiWindup.__init__ followed by list2array(NElem) and by the evaluation
\* of the equations, which leaves any values v and residuals e in the
\* governed state; the state has the addresses a.  pre holds the v and e
\* read by the last check_eq.
AwInit ==
    \E en \in BOOLEAN, b \in LimBands,
       v0 \in [Idx -> LimValues], e0 \in [Idx -> AwResiduals] :
        aw = [enable |-> en, v |-> v0, e |-> e0, a |-> [i \in Idx |-> i - 1],
              lower |-> Const(b[1]), upper |-> Const(b[2]),
              zi |-> Const(1), zl |-> Const(0), zu |-> Const(0),
              x_set |-> <<>>, pre |-> [v |-> v0, e |-> e0]]

AwIdle ==
    aw = [enable |-> TRUE, v |-> Const(0), e |-> Const(0),
          a |-> [i \in Idx |-> i - 1],
          lower |-> Const(1), upper |-> Const(3),
          zi |-> Const(1), zl |-> Const(0), zu |-> Const(0),
          x_set |-> <<>>, pre |-> [v |-> Const(0), e |-> Const(0)]]

\* mutant of AwCheckVar: the check_var of Limiter is inherited
AwCheckVarInherited ==
    /\ comp = "AntiWindup"
    /\ LET zu1 == GreaterEqual(aw.v, aw.upper)
           zl1 == LessEqual(aw.v, aw.lower)
       IN  aw' = [aw EXCEPT !.zu = zu1, !.zl = zl1,
                            !.zi = LogicalNot(LogicalOr(zu1, zl1))]
    /\ op' = "aw_check_var"
    /\ UNCHANGED <<nrvars, corevars, comp, lt, sw, lim, db, dl, sl, dv, se>>

\* AntiWindup.check_var: empty
AwCheckVar ==
    /\ comp = "AntiWindup"
    /\ aw' = aw
    /\ op' = "aw_check_var"
    /\ UNCHANGED <<nrvars, corevars, comp, lt, sw, lim, db, dl, sl, dv, se>>

\* mutant of AwCheckEqBody: the sign of the residual is not looked at
AwCheckEqNoResidual(r) ==
    LET zu1 == GreaterEqual(r.v, r.upper)
        zl1 == LessEqual(r.v, r.lower)
    IN  [r EXCEPT !.zu = zu1, !.zl = zl1,
                  !.zi = LogicalNot(LogicalOr(zu1, zl1)),
                  !.pre = [v |-> r.v, e |-> r.e]]

\* mutant of AwCheckEqBody: the residual is tested with the opposite sign
AwCheckEqOppositeSign(r) ==
    LET zu1 == LogicalAnd(GreaterEqual(r.v, r.upper), LessEqual(r.e, Const(0)))
        zl1 == LogicalAnd(LessEqual(r.v, r.lower), GreaterEqual(r.e, Const(0)))
    IN  [r EXCEPT !.zu = zu1, !.zl = zl1,
                  !.zi = LogicalNot(LogicalOr(zu1, zl1)),
                  !.pre = [v |-> r.v, e |-> r.e]]

\* AntiWindup.check_eq: the instance after the call
AwCheckEqBody(r) ==
    LET zu1 == LogicalAnd(GreaterEqual(r.v, r.upper), GreaterEqual(r.e, Const(0)))
        zl1 == LogicalAnd(LessEqual(r.v, r.lower), LessEqual(r.e, Const(0)))
    IN  [r EXCEPT !.zu = zu1, !.zl = zl1,
                  !.zi = LogicalNot(LogicalOr(zu1, zl1)),
                  !.pre = [v |-> r.v, e |-> r.e]]

AwCheckEq ==
    /\ comp = "AntiWindup"
    /\ aw' = AwCheckEqBody(aw)
    /\ op' = "aw_check_eq"
    /\ UNCHANGED <<nrvars, corevars, comp, lt, sw, lim, db, dl, sl, dv, se>>

\* mutant of AwSetEqBody: the residual is zeroed but the value not clamped
AwSetEqNoClamp(r) ==
    IF \E i \in Idx : r.zi[i] = 0
    THEN LET idx == WhereZero(r.zi, 1)
             e1  == [i \in Idx |-> r.e[i] * r.zi[i]]
         IN  [r EXCEPT !.e = e1,
                       !.x_set = <<[a |-> Take(r.a, idx), v |-> Take(r.v, idx)]>>]
    ELSE [r EXCEPT !.x_set = <<>>]

\* AntiWindup.set_eq: the instance after the call
AwSetEqBody(r) ==
    IF \E i \in Idx : r.zi[i] = 0
    THEN LET idx == WhereZero(r.zi, 1)
             e1  == [i \in Idx |-> r.e[i] * r.zi[i]]
             v1  == [i \in Idx |-> r.v[i] * r.zi[i] + r.upper[i] * r.zu[i]
                                     + r.lower[i] * r.zl[i]]
         IN  [r EXCEPT !.e = e1, !.v = v1,
                       !.x_set = <<[a |-> Take(r.a, idx), v |-> Take(v1, idx)]>>]
    ELSE [r EXCEPT !.x_set = <<>>]

AwSetEq ==
    /\ comp = "AntiWindup"
    /\ aw' = AwSetEqBody(aw)
    /\ op' = "aw_set_eq"
    /\ UNCHANGED <<nrvars, corevars, comp, lt, sw, lim, db, dl, sl, dv, se>>

\* ------------------------------------------------------------------------
\* DeadBand
\* ------------------------------------------------------------------------
\* DeadBand.__init__ followed by list2array(NElem): lower = 1, upper = 3
\* and center = 2 for every element.  prev holds the input read by the
\* check_var before the last one and calls counts the calls up to two.
DbInit ==
    \E en \in BOOLEAN, u0 \in [Idx -> LimValues] :
        db = [enable |-> en, u |-> u0,
              lower |-> Const(1), upper |-> Const(3), center |-> Const(2),
              zi |-> Const(0), zl |-> Const(0), zu |-> Const(0),
              zur |-> Const(0), zlr |-> Const(0),
              prev |-> u0, calls |-> 0]

DbIdle ==
    db = [enable |-> TRUE, u |-> Const(0),
          lower |-> Const(1), upper |-> Const(3), center |-> Const(2),
          zi |-> Const(0), zl |-> Const(0), zu |-> Const(0),
          zur |-> Const(0), zlr |-> Const(0),
          prev |-> Const(0), calls |-> 0]

\* DeadBand.check_var: the instance after the call.  The zone flags zu, zl
\* and zi of the call are locals; only zur and zlr are stored.
DbCheckVarBody(r) ==
    IF ~r.enable THEN r
    ELSE LET zu == Greater(r.u, r.upper)
             zl == Less(r.u, r.lower)
             zi == LogicalNot(LogicalOr(zu, zl))
         IN  [r EXCEPT
                !.zur = [i \in Idx |-> B2I(r.zu[i] + zi[i] = 2)
                                         + r.zur[i] * B2I(zi[i] = r.zi[i])],
                !.zlr = [i \in Idx |-> B2I(r.zl[i] + zi[i] = 2)
                                         + r.zlr[i] * B2I(zi[i] = r.zi[i])]]

\* the input takes the values u1 and check_var is called
DbCheckVar ==
    /\ comp = "DeadBand"
    /\ \E u1 \in [Idx -> LimValues] :
          db' = [DbCheckVarBody([db EXCEPT !.u = u1]) EXCEPT
                    !.prev = db.u,
                    !.calls = IF db.calls < 2 THEN db.calls + 1 ELSE 2]
    /\ op' = "db_check_var"
    /\ UNCHANGED <<nrvars, corevars, comp, lt, sw, lim, aw, dl, sl, dv, se>>

\* ------------------------------------------------------------------------
\* Delay
\* ------------------------------------------------------------------------
\* the input vector of level c: element i holds 4 * (c + i - 1), so that
\* the midpoints taken by the interpolation are on the grid
DlInput(c) == [i \in Idx |-> 4 * (c + i - 1)]

DlLevels == {1, 3}

\* between two calls the simulation time moves by one of these
DlDeltas == {-1, 0, 1, 2}

\* Delay.__init__ followed by list2array(NElem).  v_mem[i] is row i of
\* _v_mem; now is the time of the last call (-1 before the first) and u the
\* input it read, hist and times the inputs and times of the calls so far
\* while they were made at strictly increasing times (clean), calls the
\* number of calls so far.
DlInit ==
    \E m \in {"step", "time"}, d \in 0..MaxDelay :
        dl = [mode |-> m, delay |-> d,
              t |-> IF m = "step" THEN [j \in 1..(d + 1) |-> 0] ELSE <<0>>,
              v_mem |-> IF m = "step"
                        THEN [i \in Idx |-> [j \in 1..(d + 1) |-> 0]]
                        ELSE [i \in Idx |-> <<0>>],
              v |-> Const(0), rewind |-> FALSE,
              now |-> -1, u |-> Const(0), calls |-> 0, clean |-> TRUE,
              hist |-> <<>>, times |-> <<>>]

DlIdle ==
    dl = [mode |-> "step", delay |-> 0, t |-> <<0>>,
          v_mem |-> [i \in Idx |-> <<0>>],
          v |-> Const(0), rewind |-> FALSE,
          now |-> -1, u |-> Const(0), calls |-> 0, clean |-> TRUE,
              hist |-> <<>>, times |-> <<>>]

\* s with its last entry replaced by x: s[-1] = x
SetLast(s, x) == [s EXCEPT ![Len(s)] = x]

\* s shifted left by one with x stored last: s[:-1] = s[1:]; s[-1] = x
ShiftIn(s, x) == [j \in 1..Len(s) |-> IF j < Len(s) THEN s[j + 1] ELSE x]

\* the first position j of t with t[j] >= x, counted from 1: np.argmax
RECURSIVE FirstAtLeast(_, _, _)
FirstAtLeast(t, x, j) ==
    IF j > Len(t) THEN 1
    ELSE IF t[j] >= x THEN j
    ELSE FirstAtLeast(t, x, j + 1)

\* interp_n2: linear interpolation at x between (x0, y0) and (x1, y1)
Interp(x, x0, x1, y0, y1) == y0 + ((x - x0) * (y1 - y0)) \div (x1 - x0)

\* the samples of s from position k on: np.delete(s, np.arange(0, k - 1))
From(s, k) == [j \in 1..(Len(s) - k + 1) |-> s[j + k - 1]]

\* mutant of DlTimeAppend: the interpolated sample is stored but the older
\* samples are not pruned
DlTimeAppendNoPrune(r, dae_t, u) ==
    LET t1 == Append(r.t, dae_t)
        m1 == [i \in Idx |-> Append(r.v_mem[i], u[i])]
    IN  IF dae_t - t1[1] > r.delay
        THEN LET t_interp == dae_t - r.delay
                 idx == FirstAtLeast(t1, t_interp, 1) - 1
             IN  [r EXCEPT !.t = [t1 EXCEPT ![idx] = t_interp],
                           !.v_mem = [i \in Idx |->
                               [m1[i] EXCEPT ![idx] =
                                   Interp(t_interp, t1[idx], t1[idx + 1],
                                          m1[i][idx], m1[i][idx + 1])]]]
        ELSE [r EXCEPT !.t = t1, !.v_mem = m1]

\* time mode, dae_t > t[-1]: append, then interpolate and prune
DlTimeAppend(r, dae_t, u) ==
    LET t1 == Append(r.t, dae_t)
        m1 == [i \in Idx |-> Append(r.v_mem[i], u[i])]
    IN  IF dae_t - t1[1] > r.delay
        THEN LET t_interp == dae_t - r.delay
                 idx == FirstAtLeast(t1, t_interp, 1) - 1
                 t2  == [t1 EXCEPT ![idx] = t_interp]
                 m2  == [i \in Idx |->
                           [m1[i] EXCEPT ![idx] =
                               Interp(t_interp, t1[idx], t1[idx + 1],
                                      m1[i][idx], m1[i][idx + 1])]]
             IN  [r EXCEPT !.t = From(t2, idx),
                           !.v_mem = [i \in Idx |-> From(m2[i], idx)]]
        ELSE [r EXCEPT !.t = t1, !.v_mem = m1]

\* the output is the first column: self.v[:] = self._v_mem[:, 0]
DlOutput(r) == [r EXCEPT !.v = [i \in Idx |-> r.v_mem[i][1]]]

\* mutant of DlCheckVarBody: a call at an earlier time is stored like a new
\* step instead of overwriting the last sample
DlCheckVarRewindAdvances(r, dae_t, u) ==
    DlOutput(
        IF dae_t = 0
        THEN [r EXCEPT !.rewind = FALSE,
                       !.v_mem = [i \in Idx |-> [j \in 1..Len(r.v_mem[i]) |-> u[i]]]]
        ELSE IF dae_t = r.t[Len(r.t)]
        THEN [r EXCEPT !.rewind = FALSE,
                       !.v_mem = [i \in Idx |-> SetLast(r.v_mem[i], u[i])]]
        ELSE IF r.mode = "step"
        THEN [r EXCEPT !.rewind = dae_t < r.t[Len(r.t)],
                       !.t = ShiftIn(r.t, dae_t),
                       !.v_mem = [i \in Idx |-> ShiftIn(r.v_mem[i], u[i])]]
        ELSE [r EXCEPT !.rewind = dae_t < r.t[Len(r.t)],
                       !.t = Append(r.t, dae_t),
                       !.v_mem = [i \in Idx |-> Append(r.v_mem[i], u[i])]])

\* mutant of DlCheckVarBody: step mode stores the input without shifting
DlCheckVarNoShift(r, dae_t, u) ==
    DlOutput(
        IF dae_t = 0
        THEN [r EXCEPT !.rewind = FALSE,
                       !.v_mem = [i \in Idx |-> [j \in 1..Len(r.v_mem[i]) |-> u[i]]]]
        ELSE IF dae_t < r.t[Len(r.t)]
        THEN [r EXCEPT !.rewind = TRUE,
                       !.t = SetLast(r.t, dae_t),
                       !.v_mem = [i \in Idx |-> SetLast(r.v_mem[i], u[i])]]
        ELSE IF dae_t = r.t[Len(r.t)]
        THEN [r EXCEPT !.rewind = FALSE,
                       !.v_mem = [i \in Idx |-> SetLast(r.v_mem[i], u[i])]]
        ELSE IF r.mode = "step"
        THEN [r EXCEPT !.rewind = FALSE,
                       !.t = SetLast(r.t, dae_t),
                       !.v_mem = [i \in Idx |-> SetLast(r.v_mem[i], u[i])]]
        ELSE DlTimeAppend([r EXCEPT !.rewind = FALSE], dae_t, u))

\* mutant of DlCheckVarBody: step mode appends like time mode does
DlCheckVarStepAppends(r, dae_t, u) ==
    DlOutput(
        IF dae_t = 0
        THEN [r EXCEPT !.rewind = FALSE,
                       !.v_mem = [i \in Idx |-> [j \in 1..Len(r.v_mem[i]) |-> u[i]]]]
        ELSE IF dae_t < r.t[Len(r.t)]
        THEN [r EXCEPT !.rewind = TRUE,
                       !.t = SetLast(r.t, dae_t),
                       !.v_mem = [i \in Idx |-> SetLast(r.v_mem[i], u[i])]]
        ELSE IF dae_t = r.t[Len(r.t)]
        THEN [r EXCEPT !.rewind = FALSE,
                       !.v_mem = [i \in Idx |-> SetLast(r.v_mem[i], u[i])]]
        ELSE DlTimeAppend([r EXCEPT !.rewind = FALSE], dae_t, u))

\* mutant of DlCheckVarBody: a call at the time of the last sample is
\* stored like a new step
DlCheckVarEqualAdvances(r, dae_t, u) ==
    DlOutput(
        IF dae_t = 0
        THEN [r EXCEPT !.rewind = FALSE,
                       !.v_mem = [i \in Idx |-> [j \in 1..Len(r.v_mem[i]) |-> u[i]]]]
        ELSE IF dae_t < r.t[Len(r.t)]
        THEN [r EXCEPT !.rewind = TRUE,
                       !.t = SetLast(r.t, dae_t),
                       !.v_mem = [i \in Idx |-> SetLast(r.v_mem[i], u[i])]]
        ELSE IF r.mode = "step"
        THEN [r EXCEPT !.rewind = FALSE,
                       !.t = ShiftIn(r.t, dae_t),
                       !.v_mem = [i \in Idx |-> ShiftIn(r.v_mem[i], u[i])]]
        ELSE DlTimeAppend([r EXCEPT !.rewind = FALSE], dae_t, u))

\* Delay.check_var(dae_t) with the input u: the instance after the call
DlCheckVarBody(r, dae_t, u) ==
    DlOutput(
        IF dae_t = 0
        THEN [r EXCEPT !.rewind = FALSE,
                       !.v_mem = [i \in Idx |-> [j \in 1..Len(r.v_mem[i]) |-> u[i]]]]
        ELSE IF dae_t < r.t[Len(r.t)]
        THEN [r EXCEPT !.rewind = TRUE,
                       !.t = SetLast(r.t, dae_t),
                       !.v_mem = [i \in Idx |-> SetLast(r.v_mem[i], u[i])]]
        ELSE IF dae_t = r.t[Len(r.t)]
        THEN [r EXCEPT !.rewind = FALSE,
                       !.v_mem = [i \in Idx |-> SetLast(r.v_mem[i], u[i])]]
        ELSE IF r.mode = "step"
        THEN [r EXCEPT !.rewind = FALSE,
                       !.t = ShiftIn(r.t, dae_t),
                       !.v_mem = [i \in Idx |-> ShiftIn(r.v_mem[i], u[i])]]
        ELSE DlTimeAppend([r EXCEPT !.rewind = FALSE], dae_t, u))

\* the times at which the next call can be made
DlNextTimes(r) ==
    IF r.now < 0 THEN {0, 1}
    ELSE {x \in {r.now + d : d \in DlDeltas} : x >= 0}

\* the solver calls check_var at time dae_t with the input at level c
DlCheckVar ==
    /\ comp = "Delay"
    /\ dl.calls < MaxCalls
    /\ \E dae_t \in DlNextTimes(dl), c \in DlLevels :
          LET ok == dl.clean /\ (dl.now < 0 \/ dae_t > dl.now)
          IN  dl' = [DlCheckVarBody(dl, dae_t, DlInput(c)) EXCEPT
                        !.now = dae_t,
                        !.u = DlInput(c),
                        !.calls = dl.calls + 1,
                        !.clean = ok,
                        !.hist = IF ok THEN Append(dl.hist, DlInput(c)) ELSE <<>>,
                        !.times = IF ok THEN Append(dl.times, dae_t) ELSE <<>>]
    /\ op' = "dl_check_var"
    /\ UNCHANGED <<nrvars, corevars, comp, lt, sw, lim, aw, db, sl, dv, se>>

\* ------------------------------------------------------------------------
\* SortedLimiter
\* ------------------------------------------------------------------------
\* (lower, upper) of every element of a SortedLimiter: the same band for
\* all, or a single point for the first element and a wide band for the rest
SlBands ==
    {[i \in Idx |-> <<1, 3>>],
     [i \in Idx |-> IF i = 1 THEN <<2, 2>> ELSE <<0, 3>>]}

\* SortedLimiter.__init__ followed by list2array(NElem)
SlInit ==
    \E en \in BOOLEAN, n \in 0..NElem, b \in SlBands, u0 \in [Idx -> LimValues] :
        sl = [enable |-> en, lower_only |-> FALSE, upper_only |-> FALSE,
              n_select |-> n, u |-> u0,
              lower |-> [i \in Idx |-> b[i][1]], upper |-> [i \in Idx |-> b[i][2]],
              zi |-> Const(1), zl |-> Const(0), zu |-> Const(0)]

SlIdle ==
    sl = [enable |-> TRUE, lower_only |-> FALSE, upper_only |-> FALSE,
          n_select |-> 0, u |-> Const(0),
          lower |-> Const(1), upper |-> Const(3),
          zi |-> Const(1), zl |-> Const(0), zu |-> Const(0)]

\* the orders np.argsort(key) can return: the permutations of the positions
\* that put key in ascending order (the order among equal keys is not
\* specified for the default sort)
Argsorts(key) ==
    {p \in [Idx -> Idx] :
        /\ \A i, j \in Idx : i # j => p[i] # p[j]
        /\ \A i, j \in Idx : i < j => key[p[i]] <= key[p[j]]}

\* the positions in order[:n]
FirstN(order, n) == {order[j] : j \in {k \in Idx : k <= n}}

\* mutant of SlCheckVarBody: the flags of Limiter.check_var are left as
\* they are, nothing is reset
SlCheckVarNoReset(r, asc, desc) ==
    IF ~r.enable THEN r
    ELSE LimCheckVarBody(r)

\* SortedLimiter.check_var: the instance after the call, asc and desc
\* being the two orders returned by np.argsort
SlCheckVarBody(r, asc, desc) ==
    IF ~r.enable THEN r
    ELSE LET r1 == LimCheckVarBody(r)
         IN  IF r.n_select > 0
             THEN LET lowest_n  == FirstN(asc, r.n_select)
                      highest_n == FirstN(desc, r.n_select)
                      reset_in  == [i \in Idx |->
                                      B2I(i \notin lowest_n \cup highest_n)]
                      reset_out == [i \in Idx |-> 1 - reset_in[i]]
                  IN  [r1 EXCEPT !.zi = LogicalOr(reset_in, r1.zi),
                                 !.zl = LogicalAnd(reset_out, r1.zl),
                                 !.zu = LogicalAnd(reset_out, r1.zu)]
             ELSE r1

SlCheckVar ==
    /\ comp = "SortedLimiter"
    /\ \E asc \in Argsorts([i \in Idx |-> sl.u[i] - sl.lower[i]]),
          desc \in Argsorts([i \in Idx |-> sl.upper[i] - sl.u[i]]) :
          sl' = SlCheckVarBody(sl, asc, desc)
    /\ op' = "sl_check_var"
    /\ UNCHANGED <<nrvars, corevars, comp, lt, sw, lim, aw, db, dl, dv, se>>

\* the input variable takes new values
SlSetInput ==
    /\ comp = "SortedLimiter"
    /\ \E u1 \in [Idx -> LimValues] : sl' = [sl EXCEPT !.u = u1]
    /\ op' = "sl_set_input"
    /\ UNCHANGED <<nrvars, corevars, comp, lt, sw, lim, aw, db, dl, dv, se>>

\* ------------------------------------------------------------------------
\* Derivative: a Delay in step mode with delay 1 whose output is the finite
\* difference of its two samples.  Values are in grid units of 1e-8.
\* ------------------------------------------------------------------------
\* the threshold 1e-8 below which the output is zeroed
DerivEps == 1

\* the float inf
Inf == 2147483646

\* Derivative.__init__ followed by list2array(NElem); now is the time of
\* the last call (-1 before the first), u the input it read and calls the
\* number of calls so far
DvInit ==
    dv = [mode |-> "step", delay |-> 1, t |-> <<0, 0>>,
          v_mem |-> [i \in Idx |-> <<0, 0>>],
          v |-> Const(0), rewind |-> FALSE,
          now |-> -1, u |-> Const(0), calls |-> 0]

DvIdle == DvInit

\* a / b in floating point: nan for 0 / 0, an infinity for a / 0
Quotient(a, b) ==
    IF b = 0 THEN (IF a = 0 THEN NaN ELSE IF a > 0 THEN Inf ELSE -Inf)
    ELSE IF b < 0 THEN (-a) \div (-b)
    ELSE a \div b

\* self.v[np.where(self.v < 1e-8)] = 0 (a comparison with nan is false)
ZeroBelowEps(x) == IF x # NaN /\ x < DerivEps THEN 0 ELSE x

\* Derivative.check_var(dae_t) with the input u: the instance after the call
DvCheckVarBody(r, dae_t, u) ==
    LET r1 == DlCheckVarBody(r, dae_t, u)
    IN  IF dae_t = 0 \/ r1.rewind
        THEN [r1 EXCEPT !.v = Const(0)]
        ELSE [r1 EXCEPT !.v = [i \in Idx |->
                 ZeroBelowEps(Quotient(r1.v_mem[i][2] - r1.v_mem[i][1],
                                       r1.t[2] - r1.t[1]))]]

\* the solver calls check_var at time dae_t with the input at level c
DvCheckVar ==
    /\ comp = "Derivative"
    /\ dv.calls < MaxCalls
    /\ \E dae_t \in DlNextTimes(dv), c \in DlLevels :
          dv' = [DvCheckVarBody(dv, dae_t, DlInput(c)) EXCEPT
                    !.now = dae_t,
                    !.u = DlInput(c),
                    !.calls = dv.calls + 1]
    /\ op' = "dv_check_var"
    /\ UNCHANGED <<nrvars, corevars, comp, lt, sw, lim, aw, db, dl, sl, se>>

\* ------------------------------------------------------------------------
\* Average: a Delay whose output is the trapezoidal mean of its samples
\* ------------------------------------------------------------------------
\* sum over the intervals k..(nt - 1) of (m[j + 1] + m[j]) * (t[j + 1] - t[j])
RECURSIVE Trapezoids(_, _, _)
Trapezoids(m, t, k) ==
    IF k >= Len(t) THEN 0
    ELSE (m[k + 1] + m[k]) * (t[k + 1] - t[k]) + Trapezoids(m, t, k + 1)

\* the retained time span the average is divided by: t[-1] - t[0]
AvSpan(r) == Last(r.t) - r.t[1]

\* Average.check_var(dae_t) with the input u: the instance after the call
AvCheckVarBody(r, dae_t, u) ==
    LET r1 == DlCheckVarBody(r, dae_t, u)
    IN  IF dae_t = 0
        THEN [r1 EXCEPT !.v = [i \in Idx |-> Last(r1.v_mem[i])],
                        !.v_mem = [i \in Idx |->
                            [j \in 1..Len(r1.v_mem[i]) |->
                                IF j < Len(r1.v_mem[i]) THEN 0
                                ELSE r1.v_mem[i][j]]]]
        ELSE [r1 EXCEPT !.v = [i \in Idx |->
                 Quotient(Trapezoids(r1.v_mem[i], r1.t, 1) \div 2, AvSpan(r1))]]

\* the solver calls check_var at time dae_t with the input at level c
AvCheckVar ==
    /\ comp = "Average"
    /\ dl.calls < MaxCalls
    /\ \E dae_t \in DlNextTimes(dl), c \in DlLevels :
          dl' = [AvCheckVarBody(dl, dae_t, DlInput(c)) EXCEPT
                    !.now = dae_t,
                    !.u = DlInput(c),
                    !.calls = dl.calls + 1,
                    !.clean = dl.clean /\ (dl.now < 0 \/ dae_t > dl.now)]
    /\ op' = "av_check_var"
    /\ UNCHANGED <<nrvars, corevars, comp, lt, sw, lim, aw, db, sl, dv, se>>

\* ------------------------------------------------------------------------
\* Selector
\* ------------------------------------------------------------------------
\* values of the input variables of a Selector
SeValues == 0..2

\* numbers of input variables given to the constructor
SeArities == {2, 3}

\* the reduce functions given to the constructor
SeFuns == {"maximum", "minimum"}

\* Selector.__init__ followed by list2array(NElem); the input variables
\* hold zeros
SeInit ==
    \E n \in SeArities, f \in SeFuns :
        se = [fun |-> f, n |-> n,
              input_vars |-> [k \in 1..n |-> Const(0)],
              inputs |-> <<>>, outputs |-> <<>>,
              s |-> [k \in 1..n |-> Const(0)]]

SeIdle ==
    se = [fun |-> "maximum", n |-> 2,
          input_vars |-> [k \in 1..2 |-> Const(0)],
          inputs |-> <<>>, outputs |-> <<>>,
          s |-> [k \in 1..2 |-> Const(0)]]

\* np.maximum / np.minimum of two vectors
Apply(f, a, b) ==
    [i \in Idx |-> IF f = "maximum"
                   THEN (IF a[i] >= b[i] THEN a[i] ELSE b[i])
                   ELSE (IF a[i] <= b[i] THEN a[i] ELSE b[i])]

\* fun.reduce(ins): the vectors of ins folded from the left, acc holding
\* the fold of the first k - 1
RECURSIVE Reduce(_, _, _, _)
Reduce(f, ins, k, acc) ==
    IF k > Len(ins) THEN acc
    ELSE Reduce(f, ins, k + 1, Apply(f, acc, ins[k]))

\* mutant of SeCheckVarBody: only the first input that equals the result
\* is flagged
SeCheckVarFirstOnly(r) ==
    LET ins  == r.input_vars
        outs == Reduce(r.fun, ins, 2, ins[1])
    IN  [r EXCEPT !.inputs = ins, !.outputs = outs,
                  !.s = [k \in 1..r.n |->
                           [i \in Idx |->
                               B2I(/\ ins[k][i] = outs[i]
                                   /\ \A j \in 1..(k - 1) : ins[j][i] # outs[i])]]]

\* Selector.check_var: the instance after the call
SeCheckVarBody(r) ==
    LET ins  == r.input_vars
        outs == Reduce(r.fun, ins, 2, ins[1])
    IN  [r EXCEPT !.inputs = ins, !.outputs = outs,
                  !.s = [k \in 1..r.n |-> Equal(ins[k], outs)]]

\* the solver moves one value of one input variable (or none) and
\* check_var is called
SeCheckVar ==
    /\ comp = "Selector"
    /\ \E k \in 1..se.n, i \in Idx, w \in SeValues :
          se' = SeCheckVarBody([se EXCEPT !.input_vars[k][i] = w])
    /\ op' = "se_check_var"
    /\ UNCHANGED <<nrvars, corevars, comp, lt, sw, lim, aw, db, dl, sl, dv>>

\* ------------------------------------------------------------------------
\* Services: ServiceReduce and ServiceRepeat
\* ------------------------------------------------------------------------
\* the value of ref.v: a list of groups, each the list of the idx of its
\* members.  There are up to NElem + 1 groups of up to NElem members; the
\* idx of a member is its position in the flat storage.
RECURSIVE Members(_, _)
Members(sizes, first) ==
    IF sizes = <<>> THEN <<>>
    ELSE <<[k \in 1..Head(sizes) |-> first + k - 1]>>
             \o Members(Tail(sizes), first + Head(sizes))

Groupings ==
    {Members(sizes, 1) : sizes \in UNION {[1..g -> 0..NElem] : g \in 0..(NElem + 1)}}

\* list_flatten(ref.v)
RECURSIVE list_flatten(_)
list_flatten(groups) ==
    IF groups = <<>> THEN <<>> ELSE Head(groups) \o list_flatten(Tail(groups))

\* the reduce functions given to ServiceReduce
SrFuns == {"sum", "prod"}

\* the flat input u.v of the ServiceReduce at level c: one value of 0..2
\* per member
SrLevels == 0..2

SrInput(groups, c) == [k \in 1..Len(list_flatten(groups)) |-> (c + k) % 3]

\* np.sum / np.prod of a slice
RECURSIVE Fun(_, _)
Fun(f, s) ==
    IF s = <<>> THEN (IF f = "sum" THEN 0 ELSE 1)
    ELSE IF f = "sum" THEN Head(s) + Fun(f, Tail(s))
    ELSE Head(s) * Fun(f, Tail(s))

\* _v is None
Unset == [set |-> FALSE, arr |-> <<>>]

\* _v is the array s
Stored(s) == [set |-> TRUE, arr |-> s]

\* ServiceReduce.__init__ and ServiceRepeat.__init__ (u of the repeat is
\* the reduce), with the input and the grouping as loaded from the data.
\* ret is what the last operation returned, if it was a read, and how
\* tells whether that read applied the reduction or answered from _v.
SvcInit ==
    \E g \in Groupings, f \in SrFuns, c \in SrLevels :
        svc = [ref |-> g, fun |-> f, u |-> SrInput(g, c),
               sr_v |-> Unset, rp_v |-> Unset,
               ret |-> <<>>, how |-> "none", raised |-> FALSE]

SvcIdle ==
    svc = [ref |-> <<>>, fun |-> "sum", u |-> <<>>,
           sr_v |-> Unset, rp_v |-> Unset,
           ret |-> <<>>, how |-> "none", raised |-> FALSE]

\* u.v[idx:idx + n], idx counted from 0
Slice(s, idx, n) ==
    [k \in 1..(IF idx + n <= Len(s) THEN n
               ELSE IF idx < Len(s) THEN Len(s) - idx ELSE 0) |-> s[idx + k]]

\* the loop of ServiceReduce.v from group i on, idx members being consumed
RECURSIVE ReduceLoop(_, _, _, _, _)
ReduceLoop(f, groups, u, i, idx) ==
    IF i > Len(groups) THEN <<>>
    ELSE <<Fun(f, Slice(u, idx, Len(groups[i])))>>
             \o ReduceLoop(f, groups, u, i + 1, idx + Len(groups[i]))

\* mutant of SrVBody: every read applies the reduction
SrVNoCache(r) ==
    [r EXCEPT !.sr_v = Stored(ReduceLoop(r.fun, r.ref, r.u, 1, 0)),
              !.how = "computed"]

\* mutant of SrVBody: the slice of a group starts where the group before
\* it started
SrVOverlapping(r) ==
    IF ~r.sr_v.set
    THEN [r EXCEPT !.sr_v = Stored([i \in 1..Len(r.ref) |->
                                      Fun(r.fun, Slice(r.u, i - 1, Len(r.ref[i])))]),
                   !.how = "computed"]
    ELSE [r EXCEPT !.how = "cached"]

\* ServiceReduce.v (the getter): the services after the read; the value
\* returned is sr_v of the result
SrVBody(r) ==
    IF ~r.sr_v.set
    THEN [r EXCEPT !.sr_v = Stored(ReduceLoop(r.fun, r.ref, r.u, 1, 0)),
                   !.how = "computed"]
    ELSE [r EXCEPT !.how = "cached"]

\* a read of the v of the ServiceReduce
SrRead ==
    /\ comp = "Service"
    /\ LET r == SrVBody(svc)
       IN  svc' = [r EXCEPT !.ret = r.sr_v.arr, !.raised = FALSE]
    /\ op' = "sr_read"
    /\ UNCHANGED <<nrvars, comp, flagvars, vb, ev, heap>>

\* the owner resets the stored value of the ServiceReduce
SrInvalidate ==
    /\ comp = "Service"
    /\ svc.sr_v.set
    /\ svc' = [svc EXCEPT !.sr_v = Unset, !.ret = <<>>, !.how = "none",
                         !.raised = FALSE]
    /\ op' = "sr_invalidate"
    /\ UNCHANGED <<nrvars, comp, flagvars, vb, ev, heap>>

\* an assignment to v of the ServiceReduce: the property of the subclass
\* has no setter, the assignment raises AttributeError and stores nothing
SrAssignV ==
    /\ comp = "Service"
    /\ svc' = [svc EXCEPT !.ret = <<>>, !.how = "none", !.raised = TRUE]
    /\ op' = "sr_assign_v"
    /\ UNCHANGED <<nrvars, comp, flagvars, vb, ev, heap>>

\* the contributing input takes the values of another level
SvcSetInput ==
    /\ comp = "Service"
    /\ \E c \in SrLevels :
          /\ SrInput(svc.ref, c) # svc.u
          /\ svc' = [svc EXCEPT !.u = SrInput(svc.ref, c), !.ret = <<>>,
                               !.how = "none", !.raised = FALSE]
    /\ op' = "svc_set_input"
    /\ UNCHANGED <<nrvars, comp, flagvars, vb, ev, heap>>

\* the loop of ServiceRepeat.v from group i on: u[i] for every member
RECURSIVE RepeatLoop(_, _, _)
RepeatLoop(groups, u, i) ==
    IF i > Len(groups) THEN <<>>
    ELSE [k \in 1..Len(groups[i]) |-> u[i]] \o RepeatLoop(groups, u, i + 1)

\* ServiceRepeat.v (the getter), its u being the ServiceReduce, whose v it
\* reads when it computes
RpVBody(r) ==
    LET r1 == SrVBody(r)
    IN  IF ~r.rp_v.set
        THEN [r1 EXCEPT !.rp_v = Stored(RepeatLoop(r1.ref, r1.sr_v.arr, 1))]
        ELSE r

\* a read of the v of the ServiceRepeat
RpRead ==
    /\ comp = "Service"
    /\ LET r == RpVBody(svc)
       IN  svc' = [r EXCEPT !.ret = r.rp_v.arr, !.raised = FALSE]
    /\ op' = "rp_read"
    /\ UNCHANGED <<nrvars, comp, flagvars, vb, ev, heap>>

\* the owner resets the stored value of the ServiceRepeat
RpInvalidate ==
    /\ comp = "Service"
    /\ svc.rp_v.set
    /\ svc' = [svc EXCEPT !.rp_v = Unset, !.ret = <<>>, !.how = "none",
                         !.raised = FALSE]
    /\ op' = "rp_invalidate"
    /\ UNCHANGED <<nrvars, comp, flagvars, vb, ev, heap>>

\* ------------------------------------------------------------------------
\* Addressed variables: VarBase and ExtVar
\* ------------------------------------------------------------------------
\* the attribute holds no array
None == "None"

\* the arrays that exist: the address array the caller passes to
\* set_address, and the arrays that the owner variable and the external
\* variable allocate.  An attribute holds None or one of these.
Refs == {"addr", "vb.v", "vb.e", "ev.uid", "ev.a", "ev.v", "ev.e"}

\* the address arrays handed to set_address: a run of 0..NElem consecutive
\* addresses starting at one of the bases
AddrBases == {0, NElem}

AddrArrays == {[i \in 1..n |-> b + i - 1] : n \in 0..NElem, b \in AddrBases}

\* the idx of the devices of the owner model, in the order of its uid
OwnerIdx == [i \in Idx |-> 10 * i]

\* the values an indexer parameter can hold: up to NElem idx of the owner
Indexers == UNION {[1..n -> {OwnerIdx[i] : i \in Idx}] : n \in 0..NElem}

\* VarBase.__init__
VbInit ==
    vb = [n |-> 0, a |-> None, v |-> None, e |-> None]

\* ExtVar.__init__; indexer.given is FALSE when indexer is None
EvInit ==
    \E g \in BOOLEAN, ix \in Indexers :
        /\ g \/ ix = <<>>
        /\ ev = [indexer |-> [given |-> g, v |-> ix], parent |-> None,
                 n |-> 0, uid |-> None, a |-> None, v |-> None, e |-> None,
                 raised |-> FALSE]

EvIdle ==
    ev = [indexer |-> [given |-> FALSE, v |-> <<>>], parent |-> None,
          n |-> 0, uid |-> None, a |-> None, v |-> None, e |-> None,
          raised |-> FALSE]

HeapInit == heap = [r \in Refs |-> <<>>]

CoreIdle == VbInit /\ EvIdle /\ HeapInit /\ SvcIdle

\* mutant of VbSetAddressBody: v and e are sized by the count the variable
\* had before the call
VbSetAddressOldCount(r, h, addr) ==
    [vb |-> [r EXCEPT !.a = "addr", !.n = Len(addr), !.v = "vb.v", !.e = "vb.e"],
     heap |-> [h EXCEPT !["addr"] = addr,
                        !["vb.v"] = Zeros(r.n),
                        !["vb.e"] = Zeros(r.n)]]

\* VarBase.set_address(addr): the variable and the arrays after the call
VbSetAddressBody(r, h, addr) ==
    [vb |-> [r EXCEPT !.a = "addr", !.n = Len(addr), !.v = "vb.v", !.e = "vb.e"],
     heap |-> [h EXCEPT !["addr"] = addr,
                        !["vb.v"] = Zeros(Len(addr)),
                        !["vb.e"] = Zeros(Len(addr))]]

VbSetAddress ==
    /\ comp = "Var"
    /\ \E addr \in AddrArrays :
          LET r == VbSetAddressBody(vb, heap, addr)
          IN  vb' = r.vb /\ heap' = r.heap
    /\ op' = "vb_set_address"
    /\ UNCHANGED <<nrvars, comp, flagvars, ev, svc>>

\* an iteration stores a value and a residual in element i of an addressed
\* variable
VbWrite ==
    /\ comp = "Var"
    /\ vb.v # None
    /\ \E i \in 1..vb.n :
          heap' = [heap EXCEPT ![vb.v][i] = 1, ![vb.e][i] = 1]
    /\ op' = "vb_write"
    /\ UNCHANGED <<nrvars, comp, flagvars, vb, ev, svc>>

\* ext_model.idx2uid(idx): the positions, counted from 0, of the devices
\* with the given idx
Idx2Uid(idx) ==
    [j \in 1..Len(idx) |-> (CHOOSE k \in Idx : OwnerIdx[k] = idx[j]) - 1]

\* np.arange(n)
Arange(n) == [j \in 1..n |-> j - 1]

\* mutant of EvLinkExternalBody: v and e are the owner's arrays
EvLinkExternalAliases(r, h, own) ==
    LET uid == IF r.indexer.given THEN Idx2Uid(r.indexer.v) ELSE Arange(NElem)
        n   == Len(uid)
        r1  == [r EXCEPT !.parent = "vb", !.uid = "ev.uid", !.n = n,
                         !.v = own.v, !.e = own.e]
        h1  == [h EXCEPT !["ev.uid"] = uid]
    IN  IF n = 0
        THEN [ev |-> [r1 EXCEPT !.a = "ev.a", !.raised = FALSE],
              heap |-> [h1 EXCEPT !["ev.a"] = <<>>]]
        ELSE IF own.a = None \/ \E j \in 1..n : uid[j] + 1 > Len(h[own.a])
        THEN [ev |-> [r1 EXCEPT !.raised = TRUE], heap |-> h1]
        ELSE [ev |-> [r1 EXCEPT !.a = "ev.a", !.raised = FALSE],
              heap |-> [h1 EXCEPT !["ev.a"] =
                                     [j \in 1..n |-> h[own.a][uid[j] + 1]]]]

\* ExtVar.link_external(ext_model) with own the source variable of the
\* owner model, which has NElem devices: the external variable and the
\* arrays after the call.  Indexing a source without addresses, or past
\* the end of its address array, raises after uid, n, v and e are set.
EvLinkExternalBody(r, h, own) ==
    LET uid == IF r.indexer.given THEN Idx2Uid(r.indexer.v) ELSE Arange(NElem)
        n   == Len(uid)
        r1  == [r EXCEPT !.parent = "vb", !.uid = "ev.uid", !.n = n,
                         !.v = "ev.v", !.e = "ev.e"]
        h1  == [h EXCEPT !["ev.uid"] = uid,
                         !["ev.v"] = Zeros(n), !["ev.e"] = Zeros(n)]
    IN  IF n = 0
        THEN [ev |-> [r1 EXCEPT !.a = "ev.a", !.raised = FALSE],
              heap |-> [h1 EXCEPT !["ev.a"] = <<>>]]
        ELSE IF own.a = None \/ \E j \in 1..n : uid[j] + 1 > Len(h[own.a])
        THEN [ev |-> [r1 EXCEPT !.raised = TRUE], heap |-> h1]
        ELSE [ev |-> [r1 EXCEPT !.a = "ev.a", !.raised = FALSE],
              heap |-> [h1 EXCEPT !["ev.a"] =
                                     [j \in 1..n |-> h[own.a][uid[j] + 1]]]]

EvLinkExternal ==
    /\ comp = "Var"
    /\ LET r == EvLinkExternalBody(ev, heap, vb)
       IN  ev' = r.ev /\ heap' = r.heap
    /\ op' = "ev_link_external"
    /\ UNCHANGED <<nrvars, comp, flagvars, vb, svc>>

\* an iteration stores a value and a residual in element i of a linked
\* external variable
EvWrite ==
    /\ comp = "Var"
    /\ ev.v # None
    /\ \E i \in 1..ev.n :
          heap' = [heap EXCEPT ![ev.v][i] = 1, ![ev.e][i] = 1]
    /\ op' = "ev_write"
    /\ UNCHANGED <<nrvars, comp, flagvars, vb, ev, svc>>

\* ========================================================================
\* Specifications: one per component under study, the others left as
\* constructed
\* ========================================================================
\* the Newton-Raphson driver
InitNR ==
    /\ PFlowInit
    /\ comp = "PFlow"
    /\ op = "init"
    /\ LtIdle
    /\ SwIdle
    /\ LimIdle
    /\ AwIdle
    /\ DbIdle
    /\ DlIdle
    /\ SlIdle
    /\ DvIdle
    /\ SeIdle
    /\ CoreIdle

SpecNR == InitNR /\ [][NextNR]_vars

\* a LessThan or a Switcher
InitCmp ==
    /\ IdleNR
    /\ op = "init"
    /\ \/ comp = "LessThan" /\ LtInit /\ SwIdle
       \/ comp = "Switcher" /\ LtIdle /\ SwInit
    /\ LimIdle
    /\ AwIdle
    /\ DbIdle
    /\ DlIdle
    /\ SlIdle
    /\ DvIdle
    /\ SeIdle
    /\ CoreIdle

NextCmp ==
    \/ LtCheckVar
    \/ LtSetInput
    \/ LtInvalidate
    \/ SwCheckVar
    \/ SwSetInput
    \/ SwInvalidate

SpecCmp == InitCmp /\ [][NextCmp]_vars

\* a Limiter
InitLim ==
    /\ IdleNR
    /\ comp = "Limiter"
    /\ op = "init"
    /\ LtIdle
    /\ SwIdle
    /\ LimInit
    /\ AwIdle
    /\ DbIdle
    /\ DlIdle
    /\ SlIdle
    /\ DvIdle
    /\ SeIdle
    /\ CoreIdle

NextLim ==
    \/ LimCheckVar
    \/ LimSetInput

SpecLim == InitLim /\ [][NextLim]_vars

\* an AntiWindup
InitAW ==
    /\ IdleNR
    /\ comp = "AntiWindup"
    /\ op = "init"
    /\ LtIdle
    /\ SwIdle
    /\ LimIdle
    /\ AwInit
    /\ DbIdle
    /\ DlIdle
    /\ SlIdle
    /\ DvIdle
    /\ SeIdle
    /\ CoreIdle

NextAW ==
    \/ AwCheckVar
    \/ AwCheckEq
    \/ AwSetEq

SpecAW == InitAW /\ [][NextAW]_vars

\* a DeadBand
InitDB ==
    /\ IdleNR
    /\ comp = "DeadBand"
    /\ op = "init"
    /\ LtIdle
    /\ SwIdle
    /\ LimIdle
    /\ AwIdle
    /\ DbInit
    /\ DlIdle
    /\ SlIdle
    /\ DvIdle
    /\ SeIdle
    /\ CoreIdle

NextDB ==
    \/ DbCheckVar

SpecDB == InitDB /\ [][NextDB]_vars

\* a Delay
InitDelay ==
    /\ IdleNR
    /\ comp = "Delay"
    /\ op = "init"
    /\ LtIdle
    /\ SwIdle
    /\ LimIdle
    /\ AwIdle
    /\ DbIdle
    /\ DlInit
    /\ SlIdle
    /\ DvIdle
    /\ SeIdle
    /\ CoreIdle

NextDelay ==
    \/ DlCheckVar

SpecDelay == InitDelay /\ [][NextDelay]_vars

\* a SortedLimiter
InitSL ==
    /\ IdleNR
    /\ comp = "SortedLimiter"
    /\ op = "init"
    /\ LtIdle
    /\ SwIdle
    /\ LimIdle
    /\ AwIdle
    /\ DbIdle
    /\ DlIdle
    /\ SlInit
    /\ DvIdle
    /\ SeIdle
    /\ CoreIdle

NextSL ==
    \/ SlCheckVar
    \/ SlSetInput

SpecSL == InitSL /\ [][NextSL]_vars

\* a Derivative
InitDeriv ==
    /\ IdleNR
    /\ comp = "Derivative"
    /\ op = "init"
    /\ LtIdle
    /\ SwIdle
    /\ LimIdle
    /\ AwIdle
    /\ DbIdle
    /\ DlIdle
    /\ SlIdle
    /\ DvInit
    /\ SeIdle
    /\ CoreIdle

NextDeriv ==
    \/ DvCheckVar

SpecDeriv == InitDeriv /\ [][NextDeriv]_vars

\* an Average
InitAvg ==
    /\ IdleNR
    /\ comp = "Average"
    /\ op = "init"
    /\ LtIdle
    /\ SwIdle
    /\ LimIdle
    /\ AwIdle
    /\ DbIdle
    /\ DlInit
    /\ SlIdle
    /\ DvIdle
    /\ SeIdle
    /\ CoreIdle

NextAvg ==
    \/ AvCheckVar

SpecAvg == InitAvg /\ [][NextAvg]_vars

\* a Selector
InitSel ==
    /\ IdleNR
    /\ comp = "Selector"
    /\ op = "init"
    /\ LtIdle
    /\ SwIdle
    /\ LimIdle
    /\ AwIdle
    /\ DbIdle
    /\ DlIdle
    /\ SlIdle
    /\ DvIdle
    /\ SeInit
    /\ CoreIdle

NextSel ==
    \/ SeCheckVar

SpecSel == InitSel /\ [][NextSel]_vars

\* an owner variable and an external variable linked to it
InitVar ==
    /\ IdleNR
    /\ comp = "Var"
    /\ op = "init"
    /\ LtIdle
    /\ SwIdle
    /\ LimIdle
    /\ AwIdle
    /\ DbIdle
    /\ DlIdle
    /\ SlIdle
    /\ DvIdle
    /\ SeIdle
    /\ VbInit
    /\ EvInit
    /\ HeapInit
    /\ SvcIdle

NextVar ==
    \/ VbSetAddress
    \/ VbWrite
    \/ EvLinkExternal
    \/ EvWrite

SpecVar == InitVar /\ [][NextVar]_vars

\* a ServiceReduce and the ServiceRepeat that repeats it
InitSvc ==
    /\ IdleNR
    /\ comp = "Service"
    /\ op = "init"
    /\ LtIdle
    /\ SwIdle
    /\ LimIdle
    /\ AwIdle
    /\ DbIdle
    /\ DlIdle
    /\ SlIdle
    /\ DvIdle
    /\ SeIdle
    /\ VbInit
    /\ EvIdle
    /\ HeapInit
    /\ SvcInit

NextSvc ==
    \/ SrRead
    \/ SrInvalidate
    \/ SrAssignV
    \/ SvcSetInput
    \/ RpRead
    \/ RpInvalidate

SpecSvc == InitSvc /\ [][NextSvc]_vars

\* a flag instance that can be disabled: a Limiter, a SortedLimiter, a
\* LessThan or a DeadBand
InitFlags ==
    /\ IdleNR
    /\ op = "init"
    /\ SwIdle
    /\ AwIdle
    /\ DlIdle
    /\ DvIdle
    /\ SeIdle
    /\ CoreIdle
    /\ \/ comp = "Limiter" /\ LimInit /\ SlIdle /\ LtIdle /\ DbIdle
       \/ comp = "SortedLimiter" /\ LimIdle /\ SlInit /\ LtIdle /\ DbIdle
       \/ comp = "LessThan" /\ LimIdle /\ SlIdle /\ LtInit /\ DbIdle
       \/ comp = "DeadBand" /\ LimIdle /\ SlIdle /\ LtIdle /\ DbInit

NextFlags ==
    \/ LimCheckVar
    \/ LimSetInput
    \/ SlCheckVar
    \/ SlSetInput
    \/ LtCheckVar
    \/ LtSetInput
    \/ LtInvalidate
    \/ DbCheckVar

SpecFlags == InitFlags /\ [][NextFlags]_vars

\* ========================================================================
\* Properties of the Newton-Raphson driver
\* ========================================================================
IsPrefix(s, t) == Len(s) <= Len(t) /\ \A i \in 1..Len(s) : s[i] = t[i]

\* the mismatch at position i of the history exceeds 1e4 times the first one
Grown(i) == mis[i] > DivFactor * mis[1]

\* C1 (as stated): on the linear system g(y) = 2y - 4 started from y # 2,
\* nr() has converged after the first nr_step: a finished solve holds one
\* mismatch, which is below tol, and y = 2.
C1_ConvergesInOneStep ==
    (sys = "linear" /\ pc = "done")
        => /\ converged
           /\ Len(mis) = 1
           /\ mis[1] < tol
           /\ dae.y[1] = 2 * One

\* C1 (amended): on the linear system the first nr_step already leaves
\* y = 2, but the mismatch it records is that of the starting point,
\* |2*y0 - 4|.  When that is below tol the solve converges after the first
\* nr_step; otherwise it converges after exactly two nr_steps (niter = 1),
\* the second recording mismatch 0.  The solve never raises.
C1_ConvergesAtIterationOne ==
    sys = "linear" =>
        /\ pc # "raised"
        /\ Len(mis) <= 2
        /\ Len(mis) >= 1 => dae.y[1] = 2 * One
        /\ Len(mis) = 2 =>
              /\ mis[1] >= tol
              /\ mis[2] = 0
              /\ niter = 1
        /\ pc = "done" =>
              /\ converged
              /\ Last(mis) < tol
              /\ mis[1] >= tol => Len(mis) = 2
              /\ mis[1] < tol => Len(mis) = 1

\* C1 witness: a linear solve that finished after its second nr_step
C1_Witness ==
    /\ sys = "linear"
    /\ pc = "done"
    /\ converged
    /\ Len(mis) = 2
    /\ niter = 1
    /\ dae.y[1] = 2 * One

\* C2: a recorded mismatch above 1e4 times the first-iteration mismatch is
\* always the last one of the history (no nr_step follows it) and the solve
\* that recorded it ends with converged = FALSE.
C2_GrowthStopsTheSolve ==
    \A i \in 1..Len(mis) :
        Grown(i) =>
            /\ i = Len(mis)
            /\ pc \in {"vars_to_models", "test", "exit", "done"}
            /\ ~converged

\* C2 witness: a solve ended by the growth test before the iteration cap
C2_Witness ==
    /\ pc = "done"
    /\ Len(mis) >= 2
    /\ Grown(Len(mis))
    /\ niter <= max_iter
    /\ ~converged

\* the calls of one nr_step, in the order of the code
HookOrder ==
    <<"e_clear", "l_update", "f_update", "g_update", "j_update", "solve",
      "vars_to_models">>

\* C3: at every point of every nr_step the calls made so far are a prefix
\* of e_clear, l_update, f_update, g_update, j_update, solve,
\* vars_to_models; a finished nr_step has made each exactly once in that
\* order, and the models then hold the incremented x and y.
C3_HookOrder ==
    /\ IsPrefix(hooks, HookOrder)
    /\ pc = "test" =>
          /\ hooks = HookOrder
          /\ models = [x |-> dae.x, y |-> dae.y]
    /\ pc = "f_update" => Last(hooks) = "l_update"
    /\ pc = "solve" => Last(hooks) = "j_update"

\* C3 witness: the second nr_step of a solve has finished
C3_Witness ==
    /\ pc = "test"
    /\ Len(mis) = 2
    /\ hooks = HookOrder

\* C4: a finished solve has converged exactly when its last mismatch is
\* below tol; every mismatch before the last is at least tol (the solve
\* stops at the first one below tol, also at the iteration cap); no exit
\* raises.
C4_ConvergedIffBelowTol ==
    /\ pc # "raised"
    /\ \A i \in 1..(Len(mis) - 1) : mis[i] >= tol
    /\ pc \in {"exit", "done"} => (converged <=> Last(mis) < tol)
    /\ pc \notin {"exit", "done"} => ~converged

\* C4 witness: convergence at the iteration on which the cap is reached
C4_Witness ==
    /\ pc = "done"
    /\ converged
    /\ niter > max_iter
    /\ Last(mis) < tol

\* C5 (as stated): a solve never performs more than max_iter + 1 nr_steps.
C5_AtMostMaxIterPlusOneSteps ==
    Len(mis) <= max_iter + 1

\* C5 (amended): the cap is tested on the iteration counter niter, which
\* is the number of nr_steps already completed minus one: a solve stops,
\* not converged unless the last mismatch is below tol, as soon as
\* niter > max_iter, so it never performs more than max_iter + 2 nr_steps
\* and no nr_step is started once max_iter + 2 have been performed.
C5_AtMostMaxIterPlusTwoSteps ==
    /\ Len(mis) <= max_iter + 2
    /\ pc \notin {"idle", "raised"} => niter <= max_iter + 1
    /\ pc \in {"e_clear", "l_update", "f_update", "g_update", "j_update",
               "solve", "mismatch"} =>
          /\ Len(mis) = niter
          /\ Len(mis) <= max_iter + 1
    /\ (pc \in {"exit", "done"} /\ Len(mis) = max_iter + 2 /\ Last(mis) >= tol)
          => ~converged /\ niter > max_iter

\* C5 witness: a solve ended by the iteration cap after max_iter + 2 steps
C5_Witness ==
    /\ pc = "done"
    /\ ~converged
    /\ niter > max_iter
    /\ Len(mis) = max_iter + 2
    /\ ~Grown(Len(mis))

\* ========================================================================
\* Properties of the discrete flag layer
\* ========================================================================
\* the flags an evaluating Switcher.check_var exports for input u
SwFlags(u) == [k \in 1..Len(Options) |-> [i \in Idx |-> B2I(u[i] = Options[k])]]

\* C10: with caching enabled and the instance evaluated, check_var changes
\* nothing (flags stay as first computed whatever the inputs are now); once
\* _eval is reset, and whenever caching is disabled, an enabled LessThan
\* (a Switcher with valid inputs) recomputes its flags from the current
\* inputs and is marked evaluated.
C10_CachedUntilInvalidated ==
    [][ /\ (op' = "lt_check_var" /\ lt.cache /\ lt.eval) => lt' = lt
        /\ (op' = "lt_check_var" /\ lt.enable /\ ~(lt.cache /\ lt.eval)) =>
              /\ lt'.z1 = [i \in Idx |->
                             B2I(IF lt.equal THEN lt.u[i] <= lt.bound[i]
                                 ELSE lt.u[i] < lt.bound[i])]
              /\ lt'.z0 = [i \in Idx |-> 1 - lt'.z1[i]]
              /\ lt'.eval
        /\ (op' = "sw_check_var" /\ sw.cache /\ sw.eval) => sw'.s = sw.s
        /\ (op' = "sw_check_var" /\ ~(sw.cache /\ sw.eval)
              /\ \A i \in Idx : sw.u[i] \in {Options[k] : k \in 1..Len(Options)}) =>
              /\ sw'.s = SwFlags(sw.u)
              /\ sw'.eval
      ]_vars

\* C10 witness: a caching LessThan whose check_var has just returned with
\* flags that no longer agree with its current inputs
C10_Witness ==
    /\ comp = "LessThan"
    /\ op = "lt_check_var"
    /\ lt.enable /\ lt.cache /\ lt.eval /\ ~lt.equal
    /\ \E i \in Idx : lt.z1[i] # B2I(lt.u[i] < lt.bound[i])

\* C9: after check_var of an enabled Limiter, every element whose input
\* lies strictly between its lower and its upper bound has zi = 1, zl = 0
\* and zu = 0.
C9_InsideTheBand ==
    (op = "lim_check_var" /\ lim.enable) =>
        \A i \in Idx :
            (lim.lower[i] < lim.u[i] /\ lim.u[i] < lim.upper[i]) =>
                lim.zi[i] = 1 /\ lim.zl[i] = 0 /\ lim.zu[i] = 0

\* C9 witness: a check_var that found one element inside the band and
\* another one outside
C9_Witness ==
    /\ op = "lim_check_var"
    /\ lim.enable
    /\ \E i, j \in Idx :
          /\ lim.lower[i] < lim.u[i] /\ lim.u[i] < lim.upper[i]
          /\ lim.zi[i] = 1
          /\ lim.zi[j] = 0

DbInside(w, i) == db.lower[i] <= w /\ w <= db.upper[i]

\* C6: for an enabled DeadBand, a check_var that finds the input inside
\* the band after the previous check_var found it above the upper bound
\* leaves zur = 1 (and, symmetrically, zlr = 1 after a call that found it
\* below the lower bound); a return from below never sets zur.
C6_ReturnMemory ==
    (op = "db_check_var" /\ db.enable /\ db.calls = 2) =>
        \A i \in Idx :
            /\ (db.prev[i] > db.upper[i] /\ DbInside(db.u[i], i)) => db.zur[i] = 1
            /\ (db.prev[i] < db.lower[i] /\ DbInside(db.u[i], i)) =>
                  (db.zlr[i] = 1 /\ db.zur[i] = 0)

\* C7: for a Delay in step mode called at time 0 and then at strictly
\* increasing times, the output after the call of step k is the input of
\* step k - delay when k >= delay, and the input of step 0 otherwise.
C7_StepDelay ==
    (dl.mode = "step" /\ dl.clean /\ Len(dl.hist) >= 1 /\ dl.times[1] = 0) =>
        LET k == Len(dl.hist) - 1
        IN  dl.v = IF k >= dl.delay THEN dl.hist[k - dl.delay + 1]
                   ELSE dl.hist[1]

\* C7 witness: with delay 3, step 4 outputs the input of step 1, which
\* differs from the inputs of step 0 and of step 4
C7_Witness ==
    /\ dl.mode = "step"
    /\ dl.delay = 3
    /\ dl.clean
    /\ Len(dl.hist) = 5
    /\ dl.times[1] = 0
    /\ dl.v = dl.hist[2]
    /\ dl.hist[2] # dl.hist[1]
    /\ dl.hist[2] # dl.hist[5]

\* some input value of the Switcher is not in the option list
SwInvalid(r) == \E i \in Idx : \A k \in 1..Len(Options) : r.u[i] # Options[k]

\* C11 (as stated): whenever some input value is not in the option list,
\* check_var raises the invalid-option error, writes no flag and leaves
\* the evaluated mark alone.
C11_AlwaysRaises ==
    [][ (op' = "sw_check_var" /\ SwInvalid(sw)) =>
            /\ sw'.err
            /\ sw'.s = sw.s
            /\ sw'.eval = sw.eval
      ]_vars

\* C11 (amended): a check_var that is not answered from the cache (caching
\* off, or not yet evaluated) and meets an input value outside the option
\* list raises the invalid-option error, which names the offending value,
\* the owner, the parameter and the options; no flag is written and the
\* evaluated mark is left alone, so the next call validates again.  A call
\* answered from the cache returns without validating, and a call with
\* valid inputs does not raise.
C11_RaisesUnlessCached ==
    [][ /\ (op' = "sw_check_var" /\ ~(sw.cache /\ sw.eval) /\ SwInvalid(sw)) =>
              /\ sw'.err
              /\ sw'.msg.value \in {sw.u[i] : i \in Idx}
              /\ \A k \in 1..Len(Options) : sw'.msg.value # Options[k]
              /\ sw'.msg.owner = "class_name"
              /\ sw'.msg.param = "name"
              /\ sw'.msg.options = Options
              /\ sw'.s = sw.s
              /\ sw'.eval = sw.eval
              /\ ~(sw'.cache /\ sw'.eval)
        /\ (op' = "sw_check_var" /\ (~SwInvalid(sw) \/ (sw.cache /\ sw.eval))) =>
              ~sw'.err
      ]_vars

\* C11 witness: a check_var has raised on an instance that still carries
\* the flags of an earlier evaluation, which disagree with its inputs
C11_Witness ==
    /\ op = "sw_check_var"
    /\ sw.err
    /\ sw.msg.value = 3
    /\ ~sw.eval
    /\ \E i \in Idx : sw.s[1][i] = 1 /\ sw.u[i] # Options[1]

\* C12: a singular linear system is a fatal solve error: the nr_step that
\* meets a singular A applies no increment to x or y and raises, and once A
\* is singular nothing more is recorded or tried (no mismatch is appended,
\* no further step is taken).
C12_SingularIsFatal ==
    [][ /\ (pc = "solve" /\ Singular(dae.fx \o dae.gy)) =>
              /\ pc' = "raised"
              /\ dae'.x = dae.x
              /\ dae'.y = dae.y
        /\ (A # <<>> /\ Singular(A)) =>
              /\ mis' = mis
              /\ pc' = pc
      ]_vars

\* the residuals in the order of the equations: f followed by g
Residuals == dae.f \o dae.g

\* C13: a solve that ends not converged with its last two mismatches less
\* than tol apart reports the name of an equation whose residual has the
\* largest absolute value; a converged solve, and one whose last two
\* mismatches are tol or more apart, reports no equation.
C13_NamesLargestResidual ==
    pc = "done" =>
        IF ~converged /\ Abs(mis[Len(mis)] - mis[Len(mis) - 1]) < tol
        THEN /\ report.kind = "stalled"
             /\ \E i \in 1..Len(Residuals) :
                   /\ report.name = XyName(dae)[i]
                   /\ Abs(Residuals[i]) = MaxAbs(Residuals)
        ELSE report = [kind |-> "none", name |-> <<>>]

\* C14: a disabled Limiter, SortedLimiter, LessThan or DeadBand does no
\* work in check_var.  Whatever the inputs and however many calls were
\* made, a disabled Limiter or SortedLimiter has zi = 1 and zl = zu = 0 for
\* every element and a disabled DeadBand has all five flags 0; check_var
\* leaves a disabled instance exactly as it was, so a disabled LessThan
\* keeps the z0 and z1 it was constructed with and is never marked
\* evaluated.
C14_DisabledDoesNoWork ==
    /\ [] /\ (comp = "Limiter" /\ ~lim.enable) =>
                (lim.zi = Const(1) /\ lim.zl = Const(0) /\ lim.zu = Const(0))
          /\ (comp = "SortedLimiter" /\ ~sl.enable) =>
                (sl.zi = Const(1) /\ sl.zl = Const(0) /\ sl.zu = Const(0))
          /\ (comp = "DeadBand" /\ ~db.enable) =>
                /\ db.zi = Const(0) /\ db.zl = Const(0) /\ db.zu = Const(0)
                /\ db.zur = Const(0) /\ db.zlr = Const(0)
          /\ (comp = "LessThan" /\ ~lt.enable) => ~lt.eval
    /\ [][ /\ (op' = "lim_check_var" /\ ~lim.enable) => lim' = lim
           /\ (op' = "sl_check_var" /\ ~sl.enable) => sl' = sl
           /\ (op' = "lt_check_var" /\ ~lt.enable) => lt' = lt
           /\ (comp = "LessThan" /\ ~lt.enable) =>
                 (lt'.z0 = lt.z0 /\ lt'.z1 = lt.z1)
         ]_vars

\* C14 witness: a disabled SortedLimiter with n_select > 0 whose check_var
\* has returned on an input above the upper bound
C14_Witness ==
    /\ comp = "SortedLimiter"
    /\ op = "sl_check_var"
    /\ ~sl.enable
    /\ sl.n_select > 0
    /\ \E i \in Idx : sl.u[i] > sl.upper[i] /\ sl.zi[i] = 1 /\ sl.zu[i] = 0

\* the keys by which SortedLimiter ranks its elements
SlLowKey == [i \in Idx |-> sl.u[i] - sl.lower[i]]

SlHighKey == [i \in Idx |-> sl.upper[i] - sl.u[i]]

\* element i is among the n smallest keys whichever way ties are ordered
RankedIn(key, i, n) == Cardinality({j \in Idx \ {i} : key[j] <= key[i]}) < n

\* element i is not among the n smallest keys whichever way ties are ordered
RankedOut(key, i, n) == Cardinality({j \in Idx : key[j] < key[i]}) >= n

\* element i of the SortedLimiter carries the flags of a plain Limiter
SlPlain(i) ==
    /\ sl.zu[i] = B2I(sl.u[i] >= sl.upper[i])
    /\ sl.zl[i] = B2I(sl.u[i] <= sl.lower[i])
    /\ sl.zi[i] = B2I(sl.u[i] < sl.upper[i] /\ sl.u[i] > sl.lower[i])

\* element i of the SortedLimiter is flagged as inside the band
SlBypassed(i) == sl.zi[i] = 1 /\ sl.zl[i] = 0 /\ sl.zu[i] = 0

\* C15 (as stated): after check_var of an enabled SortedLimiter with
\* n_select = n > 0, the n elements furthest below the lower bound and the
\* n elements furthest above the upper bound have zi = 1 and zl = zu = 0,
\* and every other element has the flags of the plain Limiter.
C15_ExtremesBypass ==
    (op = "sl_check_var" /\ sl.enable /\ sl.n_select > 0) =>
        \A i \in Idx :
            /\ (RankedIn(SlLowKey, i, sl.n_select)
                  \/ RankedIn(SlHighKey, i, sl.n_select)) => SlBypassed(i)
            /\ (RankedOut(SlLowKey, i, sl.n_select)
                  /\ RankedOut(SlHighKey, i, sl.n_select)) => SlPlain(i)

\* C15 (amended): after check_var of an enabled SortedLimiter with
\* n_select = n > 0, the n elements with the smallest u - lower and the n
\* elements with the smallest upper - u keep the flags of the plain Limiter
\* (they are the only ones that can be flagged as violating), and every
\* other element has zi = 1 and zl = zu = 0 even when it violates a bound;
\* with n_select = 0 every element has the flags of the plain Limiter.
C15_OnlyExtremesAreLimited ==
    (op = "sl_check_var" /\ sl.enable) =>
        \A i \in Idx :
            IF sl.n_select = 0 THEN SlPlain(i)
            ELSE /\ (RankedIn(SlLowKey, i, sl.n_select)
                       \/ RankedIn(SlHighKey, i, sl.n_select)) => SlPlain(i)
                 /\ (RankedOut(SlLowKey, i, sl.n_select)
                       /\ RankedOut(SlHighKey, i, sl.n_select)) => SlBypassed(i)

\* C15 witness: with n_select = 1 one element is first in both rankings and
\* is flagged above its upper bound, while another element, also above its
\* upper bound, is flagged as inside
C15_Witness ==
    /\ op = "sl_check_var"
    /\ sl.enable
    /\ sl.n_select = 1
    /\ \E i, j \in Idx :
          /\ RankedIn(SlLowKey, i, 1) /\ RankedIn(SlHighKey, i, 1)
          /\ sl.u[i] > sl.upper[i] /\ sl.zu[i] = 1 /\ sl.zi[i] = 0
          /\ RankedOut(SlLowKey, j, 1) /\ RankedOut(SlHighKey, j, 1)
          /\ sl.u[j] > sl.upper[j] /\ sl.zu[j] = 0 /\ sl.zi[j] = 1

\* the samples before the last one are what they were before the call
DlOlderKept ==
    /\ Len(dl'.t) = Len(dl.t)
    /\ \A j \in 1..(Len(dl.t) - 1) :
          /\ dl'.t[j] = dl.t[j]
          /\ \A i \in Idx : dl'.v_mem[i][j] = dl.v_mem[i][j]

\* the last sample holds the input of the call
DlLastIsInput == \A i \in Idx : Last(dl'.v_mem[i]) = dl'.u[i]

\* C16 (as stated): a check_var at a time not greater than the last stored
\* time overwrites the last sample in place (same length, older samples
\* untouched) and leaves rewind True; a check_var at a greater time leaves
\* rewind False.
C16_NotGreaterIsRewind ==
    [][ op' = "dl_check_var" =>
            IF dl'.now <= Last(dl.t)
            THEN dl'.rewind /\ DlOlderKept /\ DlLastIsInput
            ELSE ~dl'.rewind
      ]_vars

\* C16 (amended): a check_var at a non-zero time earlier than the last
\* stored time overwrites the last sample (time and value) in place and
\* leaves rewind True; at a non-zero time equal to the last stored time it
\* overwrites the value of the last sample in place and leaves rewind False;
\* at time 0 it overwrites every stored value with the input, keeps the
\* timestamps and leaves rewind False; at a greater time it leaves rewind
\* False.
C16_EarlierIsRewind ==
    [][ op' = "dl_check_var" =>
            /\ (dl'.now # 0 /\ dl'.now < Last(dl.t)) =>
                  /\ dl'.rewind
                  /\ DlOlderKept
                  /\ Last(dl'.t) = dl'.now
                  /\ DlLastIsInput
            /\ (dl'.now # 0 /\ dl'.now = Last(dl.t)) =>
                  /\ ~dl'.rewind
                  /\ DlOlderKept
                  /\ dl'.t = dl.t
                  /\ DlLastIsInput
            /\ dl'.now = 0 =>
                  /\ ~dl'.rewind
                  /\ dl'.t = dl.t
                  /\ \A i \in Idx : \A j \in 1..Len(dl.t) :
                        /\ Len(dl'.v_mem[i]) = Len(dl.t)
                        /\ dl'.v_mem[i][j] = dl'.u[i]
            /\ dl'.now > Last(dl.t) => ~dl'.rewind
      ]_vars

\* C16 witness: a call at an earlier time has overwritten the last of at
\* least three samples with an input that differs from the sample before
C16_Witness ==
    /\ op = "dl_check_var"
    /\ dl.rewind
    /\ Len(dl.t) >= 3
    /\ Last(dl.t) = dl.now
    /\ dl.t[Len(dl.t) - 1] > dl.now
    /\ \A i \in Idx : /\ Last(dl.v_mem[i]) = dl.u[i]
                      /\ dl.v_mem[i][Len(dl.t) - 1] # dl.u[i]

\* the times and values of the samples given to a Delay in time mode by
\* calls at strictly increasing times: the samples of the calls, after the
\* zero sample at time 0 of list2array when the first call comes later
SampleTimes == IF dl.times[1] = 0 THEN dl.times ELSE <<0>> \o dl.times

SampleValues == IF dl.times[1] = 0 THEN dl.hist ELSE <<Const(0)>> \o dl.hist

\* the piecewise-linear course of element i of the samples, read at time
\* tau between the first and the last sample
InputAt(tau, i) ==
    LET k == CHOOSE k \in 1..Len(SampleTimes) :
                 /\ SampleTimes[k] <= tau
                 /\ k < Len(SampleTimes) => tau < SampleTimes[k + 1]
    IN  IF k = Len(SampleTimes) THEN SampleValues[k][i]
        ELSE SampleValues[k][i]
               + ((tau - SampleTimes[k])
                    * (SampleValues[k + 1][i] - SampleValues[k][i]))
                     \div (SampleTimes[k + 1] - SampleTimes[k])

\* C17: for a Delay in time mode called at strictly increasing times, the
\* newest stored time is the time of the call and newest - oldest stored
\* time never exceeds the delay; once the time of the call exceeds the
\* delay, the oldest stored sample is at exactly now - delay, no older
\* sample is kept, and the output v is the linear interpolation of the
\* inputs at now - delay (before that the output is the sample of time 0).
C17_BoundedWindow ==
    (dl.mode = "time" /\ dl.clean /\ Len(dl.hist) >= 1) =>
        /\ Last(dl.t) = dl.now
        /\ Last(dl.t) - dl.t[1] <= dl.delay
        /\ dl.now > dl.delay =>
              /\ dl.t[1] = dl.now - dl.delay
              /\ \A j \in 1..Len(dl.t) : dl.t[j] >= dl.now - dl.delay
              /\ \A i \in Idx : dl.v[i] = InputAt(dl.now - dl.delay, i)
        /\ dl.now <= dl.delay =>
              /\ dl.t[1] = 0
              /\ dl.v = SampleValues[1]

\* C17 witness: the output is a value interpolated between two inputs,
\* equal to neither, after samples older than now - delay were pruned
C17_Witness ==
    /\ dl.mode = "time"
    /\ dl.clean
    /\ dl.delay > 0
    /\ dl.now > dl.delay
    /\ Len(dl.t) < Len(dl.times)
    /\ dl.t[1] = dl.now - dl.delay
    /\ \A k \in 1..Len(dl.times) : dl.times[k] # dl.t[1] /\ dl.hist[k] # dl.v

\* C18: after check_var a Derivative outputs 0 when the call was made at
\* time 0 or rewound, and otherwise the finite difference
\* (latest sample - previous sample) / (latest time - previous time),
\* replaced by 0 only when its magnitude is below the threshold: a negative
\* difference of magnitude at least the threshold is output as it is.
C18_FiniteDifference ==
    op = "dv_check_var" =>
        \A i \in Idx :
            IF dv.now = 0 \/ dv.rewind THEN dv.v[i] = 0
            ELSE dv.t[2] # dv.t[1] =>
                    LET d == Quotient(dv.v_mem[i][2] - dv.v_mem[i][1],
                                      dv.t[2] - dv.t[1])
                    IN  dv.v[i] = IF Abs(d) < DerivEps THEN 0 ELSE d


\* the value that the reduce function selects at element i: the largest
\* (smallest) of the inputs there
SeSelected(i) ==
    CHOOSE m \in {se.input_vars[k][i] : k \in 1..se.n} :
        \A k \in 1..se.n :
            IF se.fun = "maximum" THEN se.input_vars[k][i] <= m
            ELSE se.input_vars[k][i] >= m

\* C19: after Selector.check_var, flag s_k is 1 at exactly the elements
\* where input k equals the reduced value and 0 elsewhere; the flags of all
\* inputs that tie for the reduced value at an element are 1 there, and at
\* least one flag is 1 at every element.
C19_FlagsMarkTheSelected ==
    op = "se_check_var" =>
        \A i \in Idx :
            /\ \A k \in 1..se.n :
                  se.s[k][i] = B2I(se.input_vars[k][i] = SeSelected(i))
            /\ \E k \in 1..se.n : se.s[k][i] = 1

\* C19 witness: two of three inputs tie for the maximum at an element and
\* both are flagged there, the third is not
C19_Witness ==
    /\ op = "se_check_var"
    /\ se.n = 3
    /\ se.fun = "maximum"
    /\ \E i \in Idx, j, k, l \in 1..3 :
          /\ j # k
          /\ se.input_vars[j][i] = se.input_vars[k][i]
          /\ se.input_vars[l][i] < se.input_vars[k][i]
          /\ se.s[j][i] = 1 /\ se.s[k][i] = 1 /\ se.s[l][i] = 0


\* C20: after a Switcher.check_var that evaluates without raising there is
\* one flag array per option, in option order (s[k] is the exported flag
\* s{k-1}); a flag is 1 exactly at the elements whose input equals its
\* option and 0 elsewhere, and, the options being distinct, exactly one flag
\* is 1 at every element.
C20_OneFlagPerOption ==
    [][ (op' = "sw_check_var" /\ ~(sw.cache /\ sw.eval) /\ ~sw'.err) =>
            /\ Len(sw'.s) = Len(Options)
            /\ \A k \in 1..Len(Options) : \A i \in Idx :
                  /\ sw'.s[k][i] \in {0, 1}
                  /\ sw'.s[k][i] = 1 <=> sw.u[i] = Options[k]
            /\ \A i \in Idx :
                  Cardinality({k \in 1..Len(Options) : sw'.s[k][i] = 1}) = 1
      ]_vars

\* C20 witness: an uncached Switcher has just evaluated an input that picks
\* the second option at the first element and the first option at another,
\* the flag arrays saying so
C20_Witness ==
    /\ op = "sw_check_var"
    /\ ~sw.cache /\ sw.eval /\ ~sw.err
    /\ sw.u[1] = Options[2]
    /\ \E i \in Idx : sw.u[i] = Options[1] /\ sw.s[1][i] = 1 /\ sw.s[2][i] = 0
    /\ sw.s[2][1] = 1 /\ sw.s[1][1] = 0

\* C21: after every check_var of an enabled DeadBand the exported zone
\* flags describe the input just read: zu = 1 exactly where u > upper,
\* zl = 1 exactly where u < lower, and zi = not(zu or zl).
C21_ZoneFlagsFollowInput ==
    (op = "db_check_var" /\ db.enable) =>
        \A i \in Idx :
            /\ db.zu[i] = B2I(db.u[i] > db.upper[i])
            /\ db.zl[i] = B2I(db.u[i] < db.lower[i])
            /\ db.zi[i] = B2I(~(db.zu[i] = 1 \/ db.zl[i] = 1))

\* ========================================================================
\* Properties of the addressed variables
\* ========================================================================
\* C22: set_address(addr) leaves a = addr, n = len(addr) and v and e zero
\* vectors of length n; and whenever a variable has an address array, a, v
\* and e all have length n, whatever has been stored in v and e since.
C22_AddressedLengths ==
    /\ [](vb.a # None =>
            /\ Len(heap[vb.a]) = vb.n
            /\ vb.v # None /\ Len(heap[vb.v]) = vb.n
            /\ vb.e # None /\ Len(heap[vb.e]) = vb.n)
    /\ [][ op' = "vb_set_address" =>
            /\ vb'.a = "addr"
            /\ heap'[vb'.a] \in AddrArrays
            /\ vb'.n = Len(heap'[vb'.a])
            /\ heap'[vb'.v] = [i \in 1..vb'.n |-> 0]
            /\ heap'[vb'.e] = [i \in 1..vb'.n |-> 0]
         ]_vars

\* C22 witness: a variable with NElem addresses starting above 0 has had
\* values stored in it since its address was set
C22_Witness ==
    /\ op = "vb_write"
    /\ vb.n = NElem
    /\ heap[vb.a][1] = NElem
    /\ \E i \in 1..vb.n : heap[vb.v][i] = 1 /\ heap[vb.e][i] = 1

\* C23: set_address takes effect once: a call on a variable that already
\* has an address is rejected and leaves a, v and e as they were.
C23_SetAddressOnce ==
    [][ (op' = "vb_set_address" /\ vb.a # None) =>
            /\ vb' = vb
            /\ heap'[vb.a] = heap[vb.a]
            /\ heap'[vb.v] = heap[vb.v]
            /\ heap'[vb.e] = heap[vb.e]
      ]_vars

\* C24: a link_external that returns leaves uid of length n; a[j] is the
\* owner's address at position uid[j] (the address of the owner's device
\* whose idx the indexer names, or all of the owner's addresses in order
\* without an indexer); v and e are zero vectors of length n held in arrays
\* of their own, so that neither the linking nor a later store into the
\* external v and e changes the owner's v or e.
C24_LinkedAddresses ==
    [][ /\ (op' = "ev_link_external" /\ ~ev'.raised) =>
              /\ Len(heap'[ev'.uid]) = ev'.n
              /\ Len(heap'[ev'.a]) = ev'.n
              /\ \A j \in 1..ev'.n :
                    heap'[ev'.a][j] = heap[vb.a][heap'[ev'.uid][j] + 1]
              /\ ev.indexer.given =>
                    \A j \in 1..ev'.n : \A k \in Idx :
                        OwnerIdx[k] = ev.indexer.v[j] =>
                            heap'[ev'.a][j] = heap[vb.a][k]
              /\ ~ev.indexer.given => heap'[ev'.a] = heap[vb.a]
              /\ ev'.v # None /\ ev'.e # None /\ ev'.v # ev'.e
              /\ {ev'.v, ev'.e} \cap {vb.a, vb.v, vb.e} = {}
              /\ heap'[ev'.v] = [j \in 1..ev'.n |-> 0]
              /\ heap'[ev'.e] = [j \in 1..ev'.n |-> 0]
        /\ (op' \in {"ev_link_external", "ev_write"} /\ vb.a # None) =>
              /\ vb' = vb
              /\ heap'[vb.a] = heap[vb.a]
              /\ heap'[vb.v] = heap[vb.v]
              /\ heap'[vb.e] = heap[vb.e]
      ]_vars

\* C24 witness: an external variable indexing the owner's devices out of
\* order has been linked and written while the owner, addressed from NElem
\* on, holds stored values in some element and zeros in another
C24_Witness ==
    /\ op = "ev_write"
    /\ ~ev.raised
    /\ vb.a # None
    /\ vb.n = NElem
    /\ ev.indexer.given
    /\ ev.n >= 2
    /\ heap[ev.uid][1] > heap[ev.uid][2]
    /\ heap[ev.a][1] = heap[vb.a][heap[ev.uid][1] + 1]
    /\ heap[vb.a][1] = NElem
    /\ \E i, j \in 1..vb.n : heap[vb.v][i] = 1 /\ heap[vb.v][j] = 0
    /\ \E j \in 1..ev.n : heap[ev.v][j] = 1

\* ========================================================================
\* Properties of the services
\* ========================================================================
\* the slice of the flat input that belongs to group i
GroupSlice(r, i) == [k \in 1..Len(r.ref[i]) |-> r.u[r.ref[i][k]]]

\* the reduction of the current input, group by group
Reduction(r) == [i \in 1..Len(r.ref) |-> Fun(r.fun, GroupSlice(r, i))]

\* C25: ServiceReduce.v is computed on the first read and kept: a read
\* that finds a stored value returns it without applying the reduction,
\* a change of the input leaves the stored value alone, and after the
\* owner has reset the stored value the next read applies the reduction to
\* the input as it is then.
C25_LazyCachedReduce ==
    [][ /\ (op' = "sr_read" /\ svc.sr_v.set) =>
              /\ svc'.ret = svc.sr_v.arr
              /\ svc'.sr_v = svc.sr_v
              /\ svc'.how = "cached"
        /\ (op' = "sr_read" /\ ~svc.sr_v.set) =>
              /\ svc'.how = "computed"
              /\ svc'.ret = Reduction(svc)
              /\ svc'.sr_v = [set |-> TRUE, arr |-> Reduction(svc)]
        /\ op' = "svc_set_input" => svc'.sr_v = svc.sr_v
        /\ op' = "sr_invalidate" => ~svc'.sr_v.set
      ]_vars

\* C25 witness: a read has been answered from the stored value although
\* the reduction of the current input is different
C25_Witness ==
    /\ op = "sr_read"
    /\ svc.how = "cached"
    /\ svc.ret # Reduction(svc)

\* C26: a read that computes the ServiceReduce yields one value per group,
\* the function applied to the members of that group in the flat input
\* (consecutive slices in group order, an empty group getting the function
\* of the empty slice); a read that computes the ServiceRepeat yields one
\* value per member, the value of the member's group, so that the repeat
\* of a freshly computed reduction has the length of the input and is
\* constant within each group.
C26_ReduceThenRepeat ==
    [][ /\ (op' = "sr_read" /\ ~svc.sr_v.set) =>
              /\ Len(svc'.ret) = Len(svc.ref)
              /\ \A i \in 1..Len(svc.ref) :
                    svc'.ret[i] = Fun(svc.fun, GroupSlice(svc, i))
        /\ (op' = "rp_read" /\ ~svc.rp_v.set) =>
              /\ svc'.sr_v.set
              /\ Len(svc'.sr_v.arr) = Len(svc.ref)
              /\ Len(svc'.ret) = Len(svc.u)
              /\ \A i \in 1..Len(svc.ref) : \A k \in 1..Len(svc.ref[i]) :
                    /\ svc'.ret[svc.ref[i][k]] = svc'.sr_v.arr[i]
                    /\ svc'.ret[svc.ref[i][k]] = svc'.ret[svc.ref[i][1]]
              /\ ~svc.sr_v.set =>
                    \A i \in 1..Len(svc.ref) : \A k \in 1..Len(svc.ref[i]) :
                        svc'.ret[svc.ref[i][k]] = Fun(svc.fun, GroupSlice(svc, i))
      ]_vars

\* C26 witness: the repeat has been computed over a grouping with an empty
\* group between two groups that have different values, one of them with
\* several members
C26_Witness ==
    /\ op = "rp_read"
    /\ Len(svc.ref) = 3
    /\ Len(svc.ref[1]) = 2 /\ svc.ref[2] = <<>> /\ Len(svc.ref[3]) >= 1
    /\ svc.rp_v.set /\ svc.ret = svc.rp_v.arr
    /\ Len(svc.ret) = Len(svc.u)
    /\ svc.ret[1] = svc.ret[2]
    /\ svc.ret[2] # svc.ret[3]
    /\ svc.ret[1] = Fun(svc.fun, GroupSlice(svc, 1))

\* ========================================================================
\* Further properties of the Newton-Raphson driver
\* ========================================================================
\* the positions of nr_step before the mismatch is appended
BeforeMismatch ==
    {"e_clear", "l_update", "f_update", "g_update", "j_update", "solve",
     "mismatch"}

\* one mismatch has been appended for every nr_step performed: niter steps
\* were completed before the one in progress
OnePerStep ==
    /\ pc \in BeforeMismatch => Len(mis) = niter
    /\ pc \in {"vars_to_models", "test"} => Len(mis) = niter + 1

\* C27 (as stated): the mismatch that nr_step appends is the largest
\* absolute residual at the x and y that the step leaves in the system
\* after applying the increment (on the linear system, |2y - 4| at the
\* incremented y), and one mismatch is appended per nr_step.
C27_MismatchOfNewIterate ==
    /\ (pc = "vars_to_models" /\ sys = "linear") =>
          Last(mis) = Abs(LinearG(dae.y[1]))
    /\ OnePerStep

\* C27 (amended): the mismatch that nr_step appends is the largest
\* absolute value of the residuals f and g as the step evaluated them,
\* that is at the x and y the step started from, before the increment was
\* applied (on the linear system, |2y - 4| at the y the models held when
\* the step began); the residuals are not evaluated again after the
\* increment.  One mismatch is appended per nr_step.
C27_MismatchOfStartingIterate ==
    /\ pc = "vars_to_models" =>
          /\ Last(mis) = MaxAbs(dae.f \o dae.g)
          /\ sys = "linear" => Last(mis) = Abs(LinearG(models.y[1]))
    /\ OnePerStep

\* C27 witness: an nr_step of a linear solve has moved y and appended its
\* mismatch, which is at least tol and is not the residual at the y it
\* leaves
C27_Witness ==
    /\ pc = "vars_to_models"
    /\ sys = "linear"
    /\ Len(mis) = niter + 1
    /\ Last(mis) >= tol
    /\ models.y # dae.y
    /\ Last(mis) # Abs(LinearG(dae.y[1]))

\* ========================================================================
\* Further properties of the anti-windup limiter
\* ========================================================================
\* the elements with zi = 0, in index order
AwActive(r) == WhereZero(r.zi, 1)

\* C28: set_eq gives every element with zi = 0 residual 0 and the value of
\* the bound it violates (upper where zu = 1, lower where zl = 1) and
\* records its (address, clamped value) pair in x_set; the elements with
\* zi = 1 keep value and residual; x_set holds the pairs of this call
\* only and is empty when no element has zi = 0.
C28_SetEqClampsActive ==
    [][ op' = "aw_set_eq" =>
          /\ \A i \in Idx :
                /\ aw.zi[i] = 0 =>
                      /\ aw'.e[i] = 0
                      /\ aw.zu[i] = 1 => aw'.v[i] = aw.upper[i]
                      /\ aw.zl[i] = 1 => aw'.v[i] = aw.lower[i]
                /\ aw.zi[i] = 1 => (aw'.v[i] = aw.v[i] /\ aw'.e[i] = aw.e[i])
          /\ IF AwActive(aw) = <<>> THEN aw'.x_set = <<>>
             ELSE aw'.x_set =
                    <<[a |-> [j \in 1..Len(AwActive(aw)) |-> aw.a[AwActive(aw)[j]]],
                       v |-> [j \in 1..Len(AwActive(aw)) |-> aw'.v[AwActive(aw)[j]]]]>>
      ]_vars

\* element i of the instance r is beyond a bound with the residual
\* bringing it back
AwReturning(r, i) ==
    \/ r.v[i] > r.upper[i] /\ r.e[i] < 0
    \/ r.v[i] < r.lower[i] /\ r.e[i] > 0

C30_DisabledAntiWindupBypassed ==
    /\ [](~aw.enable =>
            /\ aw.zi = [i \in Idx |-> 1]
            /\ aw.zl = [i \in Idx |-> 0]
            /\ aw.zu = [i \in Idx |-> 0]
            /\ aw.x_set = <<>>)
    /\ [][ (~aw.enable /\ op' \in {"aw_check_var", "aw_check_eq", "aw_set_eq"}) =>
              (aw'.v = aw.v /\ aw'.e = aw.e)
         ]_vars

\* C31: AntiWindup.check_var changes nothing (flags, value and residual of
\* the governed state, x_set), whatever the value is; the flags of an
\* AntiWindup change in check_eq only.
C31_CheckVarIsNoOp ==
    [][ /\ op' = "aw_check_var" =>
              /\ aw'.zi = aw.zi /\ aw'.zl = aw.zl /\ aw'.zu = aw.zu
              /\ aw'.v = aw.v /\ aw'.e = aw.e
              /\ aw'.x_set = aw.x_set
        /\ (aw'.zi # aw.zi \/ aw'.zl # aw.zl \/ aw'.zu # aw.zu) =>
              op' = "aw_check_eq"
      ]_vars

\* C31 witness: check_var has returned on an instance whose flags say
\* "inside" for an element that is beyond the upper bound
C31_Witness ==
    /\ op = "aw_check_var"
    /\ \E i \in Idx :
          /\ aw.v[i] > aw.upper[i]
          /\ aw.zi[i] = 1 /\ aw.zu[i] = 0

\* C32: after every check_var of an enabled Limiter zi = not(zu or zl)
\* elementwise; with upper_only zl is 0 and with lower_only zu is 0 in
\* every state, whatever the input is; and where lower < upper exactly one
\* of zi, zl, zu is 1.
C32_LimiterFlagIdentity ==
    /\ lim.upper_only => \A i \in Idx : lim.zl[i] = 0
    /\ lim.lower_only => \A i \in Idx : lim.zu[i] = 0
    /\ (op = "lim_check_var" /\ lim.enable) =>
          \A i \in Idx :
              /\ lim.zi[i] = B2I(~(lim.zu[i] = 1 \/ lim.zl[i] = 1))
              /\ lim.lower[i] < lim.upper[i] =>
                    /\ {lim.zi[i], lim.zl[i], lim.zu[i]} \subseteq {0, 1}
                    /\ lim.zi[i] + lim.zl[i] + lim.zu[i] = 1

\* C32 witness: an enabled upper-only Limiter with a proper band has
\* evaluated an input that is below the lower bound at one element, which
\* counts as inside, and above the upper bound at another
C32_Witness ==
    /\ op = "lim_check_var"
    /\ lim.enable /\ lim.upper_only /\ ~lim.lower_only
    /\ \E i, j \in Idx :
          /\ lim.lower[i] < lim.upper[i]
          /\ lim.u[i] < lim.lower[i]
          /\ lim.zl[i] = 0 /\ lim.zi[i] = 1
          /\ lim.u[j] > lim.upper[j]
          /\ lim.zu[j] = 1 /\ lim.zi[j] = 0

\* C33: a check_var of a LessThan that evaluates (enabled, and not served
\* from the cache) leaves z1 = 1 exactly where u < bound (u <= bound with
\* equal = True) and z0 = 1 - z1, so z0 + z1 = 1 at every element of an
\* evaluated instance whatever z0 and z1 the constructor was given.
C33_LessThanFlagsComplement ==
    /\ [](lt.eval => \A i \in Idx : /\ lt.z1[i] \in {0, 1}
                                    /\ lt.z0[i] + lt.z1[i] = 1)
    /\ [][ (op' = "lt_check_var" /\ lt.enable /\ ~(lt.cache /\ lt.eval)) =>
              \A i \in Idx :
                 /\ lt'.z1[i] = 1 <=> (\/ lt.u[i] < lt.bound[i]
                                       \/ lt.equal /\ lt.u[i] = lt.bound[i])
                 /\ lt'.z0[i] = 1 <=> lt'.z1[i] = 0
         ]_vars

\* C33 witness: a LessThan with equal = True has just evaluated an input
\* that sits on the bound at one element and above it at another
C33_Witness ==
    /\ comp = "LessThan"
    /\ op = "lt_check_var"
    /\ lt.enable /\ ~lt.cache /\ lt.eval /\ lt.equal
    /\ \E i, j \in Idx :
          /\ lt.u[i] = lt.bound[i] /\ lt.z1[i] = 1 /\ lt.z0[i] = 0
          /\ lt.u[j] > lt.bound[j] /\ lt.z1[j] = 0 /\ lt.z0[j] = 1

\* C34: every call of nr(), the first one as well as a call on a driver
\* whose earlier solve has returned, starts with converged = False, an
\* empty mismatch history, no increment, no matrix and niter = 0; hence the
\* history of a solve holds exactly one mismatch per step of that solve
\* (mis[0] is its own first mismatch) and converged is set only when the
\* last mismatch of that solve is below the tolerance.
C34_EverySolveStartsFresh ==
    /\ [][ (NrCallable /\ pc' = "e_clear") =>
              /\ converged' = FALSE
              /\ mis' = <<>>
              /\ inc' = <<>>
              /\ A' = <<>>
              /\ niter' = 0
         ]_vars
    /\ [](pc # "idle" =>
              /\ Len(mis) \in {niter, niter + 1}
              /\ pc \in {"test", "exit", "done", "raised"} => Len(mis) = niter + 1
              /\ converged => Len(mis) > 0 /\ Last(mis) < tol)

\* C34 witness: nr() has been called again on a driver whose earlier solve
\* ended without converging and logged a stall; the new solve has an empty
\* history and counter 0 while the hooks of the earlier step are on record
C34_Witness ==
    /\ pc = "e_clear"
    /\ report.kind = "stalled"
    /\ hooks = HookOrder
    /\ niter = 0 /\ mis = <<>> /\ ~converged /\ inc = <<>> /\ A = <<>>

\* C35: with max_iter >= 0, whenever the loop of nr() has been left without
\* converging the mismatch history holds at least two entries; the stall
\* test never fails on a one-entry history.
C35_TwoMismatchesAtFailedExit ==
    /\ max_iter >= 0
    /\ (pc \in {"exit", "done"} /\ ~converged) => Len(mis) >= 2
    /\ pc # "raised"
    /\ report.kind # "raised"

\* C35 witness: with max_iter = 0 the loop was left without converging,
\* after two steps
C35_Witness ==
    /\ pc = "exit"
    /\ max_iter = 0
    /\ ~converged
    /\ Len(mis) = 2
    /\ mis[2] >= tol

\* C36: a Delay in step mode holds exactly delay + 1 samples per element
\* and delay + 1 timestamps in every reachable state, whatever times the
\* calls were made at; a check_var at a time greater than the newest stored
\* timestamp moves every sample and timestamp one slot towards the output
\* and stores the input and the time in the last slot.
C36_StepModeRing ==
    /\ [](dl.mode = "step" =>
              /\ Len(dl.t) = dl.delay + 1
              /\ \A i \in Idx : Len(dl.v_mem[i]) = dl.delay + 1)
    /\ [][ (op' = "dl_check_var" /\ dl.mode = "step" /\ dl'.now > Last(dl.t)) =>
              /\ \A j \in 1..dl.delay :
                    /\ dl'.t[j] = dl.t[j + 1]
                    /\ \A i \in Idx : dl'.v_mem[i][j] = dl.v_mem[i][j + 1]
              /\ dl'.t[dl.delay + 1] = dl'.now
              /\ \A i \in Idx : dl'.v_mem[i][dl.delay + 1] = dl'.u[i]
         ]_vars

\* C36 witness: a step-mode Delay with delay 2 that has seen an equal or
\* rewound time has then stored a new step: three increasing timestamps,
\* the input in the last slot and a different sample before it
C36_Witness ==
    /\ op = "dl_check_var"
    /\ dl.mode = "step" /\ dl.delay = 2
    /\ ~dl.clean /\ ~dl.rewind
    /\ Len(dl.t) = 3
    /\ dl.t[1] < dl.t[2] /\ dl.t[2] < dl.t[3] /\ dl.t[3] = dl.now
    /\ dl.v_mem[1][3] = dl.u[1]
    /\ dl.v_mem[1][2] # dl.v_mem[1][3]

\* C37: the timestamps stored by a Delay are non-decreasing in every
\* reachable state, rewinds to a time earlier than the second-newest
\* timestamp included.
C37_TimestampsSorted ==
    \A j \in 1..(Len(dl.t) - 1) : dl.t[j] <= dl.t[j + 1]

\* C38 (as stated): a check_var at the time of the previous call replaces
\* only the newest sample by the input; repeated with the same input it
\* changes nothing; in step mode with delay >= 1 the output is what it was
\* before the call, whatever the input is.
C38_RepeatKeepsOutput ==
    [][ (op' = "dl_check_var" /\ dl'.now = dl.now) =>
            /\ dl'.t = dl.t
            /\ DlOlderKept
            /\ DlLastIsInput
            /\ dl'.u = dl.u =>
                  /\ dl'.v_mem = dl.v_mem
                  /\ dl'.v = dl.v
            /\ (dl.mode = "step" /\ dl.delay >= 1) => dl'.v = dl.v
      ]_vars

\* C38 (amended): a check_var at the time of the previous call never
\* changes the timestamps or the number of samples, and repeated with the
\* same input it changes nothing.  At a non-zero time it replaces only the
\* newest sample by the input, so in step mode with delay >= 1 the output
\* is what it was before the call, whatever the input is; at time 0 it
\* overwrites every stored sample with the input and the output is the
\* input.
C38_RepeatKeepsOutputPastTimeZero ==
    [][ (op' = "dl_check_var" /\ dl'.now = dl.now) =>
            /\ dl'.t = dl.t
            /\ \A i \in Idx : Len(dl'.v_mem[i]) = Len(dl.v_mem[i])
            /\ dl'.u = dl.u =>
                  /\ dl'.v_mem = dl.v_mem
                  /\ dl'.v = dl.v
            /\ dl'.now # 0 =>
                  /\ DlOlderKept
                  /\ DlLastIsInput
                  /\ (dl.mode = "step" /\ dl.delay >= 1) => dl'.v = dl.v
            /\ dl'.now = 0 =>
                  /\ \A i \in Idx : \A j \in 1..Len(dl.t) :
                        dl'.v_mem[i][j] = dl'.u[i]
                  /\ dl'.v = dl'.u
      ]_vars

\* C38 witness: a step-mode Delay with delay 1 was called at time 1 and
\* then at time 1 again; the newest sample holds the latest input and the
\* output is still the sample stored before the step
C38_Witness ==
    /\ op = "dl_check_var"
    /\ dl.mode = "step" /\ dl.delay = 1
    /\ dl.calls = 2 /\ ~dl.clean /\ ~dl.rewind
    /\ dl.now = 1
    /\ dl.t = <<0, 1>>
    /\ dl.v_mem[1][2] = dl.u[1]
    /\ dl.v[1] = 0 /\ dl.v[1] # dl.u[1]

\* C39: whenever Average.check_var computes an average (a call at a time
\* other than 0) the retained time span t[-1] - t[0] it divides by is
\* strictly positive and the output is a number, in step mode and in time
\* mode, for any delay >= 0 and any sequence of call times.
C39_AverageSpanPositive ==
    (comp = "Average" /\ op = "av_check_var" /\ dl.now # 0) =>
        /\ AvSpan(dl) > 0
        /\ \A i \in Idx : dl.v[i] \notin {NaN, Inf, -Inf}

\* C40: after check_var of an enabled SortedLimiter with n_select = n > 0
\* at most n elements have zl = 1 and at most n have zu = 1, every element
\* with zl = 1 is among the n lowest-ranked and at or below its lower bound,
\* every element with zu = 1 is among the n highest-ranked and at or above
\* its upper bound, and zi = not(zu or zl) everywhere; with n_select = 0
\* every element has the flags of the plain Limiter.
C40_AtMostNPerSide ==
    (op = "sl_check_var" /\ sl.enable) =>
        IF sl.n_select = 0 THEN \A i \in Idx : SlPlain(i)
        ELSE /\ Cardinality({i \in Idx : sl.zl[i] = 1}) <= sl.n_select
             /\ Cardinality({i \in Idx : sl.zu[i] = 1}) <= sl.n_select
             /\ \A i \in Idx :
                   /\ sl.zl[i] = 1 =>
                         /\ ~RankedOut(SlLowKey, i, sl.n_select)
                         /\ sl.u[i] <= sl.lower[i]
                   /\ sl.zu[i] = 1 =>
                         /\ ~RankedOut(SlHighKey, i, sl.n_select)
                         /\ sl.u[i] >= sl.upper[i]
                   /\ sl.zi[i] = B2I(~(sl.zu[i] = 1 \/ sl.zl[i] = 1))

====
